---- MODULE Spec2Model ----
(***************************************************************************)
(* A state-machine model of the kafka-to-nexus file writer: the partition  *)
(* consumer (Streamer), the per-source writer binding (Source) and the     *)
(* HDF file life cycle (HDFFile).                                          *)
(***************************************************************************)
EXTENDS Integers, Sequences, FiniteSets, TLC

(***************************************************************************)
(* Bounds of the model.                                                    *)
(***************************************************************************)
\* Largest start/stop time (milliseconds) a job is configured with.
MaxTimeMs == 2
\* Largest after-stop leeway (milliseconds).
MaxLeewayMs == 1
\* Width of a message timestamp.  The program uses 64 bit; the model keeps
\* the unsigned -> signed reinterpretation but on a narrower word, because
\* TLC's integers are 32 bit.
TimestampBits == 24
\* Largest before-start leeway (milliseconds); larger than MaxTimeMs so that
\* StartTimestamp - BeforeStartTime also takes negative values.
MaxBeforeStartMs == 3
\* How many array levels beyond MAX_DIMENSIONS_OF_ARRAY template values are
\* nested.
MaxExtraDepth == 1
\* Largest GoalSize populateBlob is called with.
MaxGoalSize == 3
\* Passes of the master loop followed after Master::stop was called.
MaxPollsAfterStop == 2
\* Largest offset of a message in the partition of the legacy Streamer.
MaxOffset == 5
\* Streamer::step_back_amount, scaled down from 1000.
step_back_amount == 2
\* Messages one scan_timestamps call may consume.
MaxConsumes == 2
\* Nested calls of get_initial_time that are followed.
MaxDepth == 8
\* Largest number of sources of the DemuxTopic given to get_initial_time.
MaxSources == 2
\* Number of values the source hash can take (a hash is not injective).
HashBuckets == 3

\* std::chrono::duration_cast<nanoseconds>(milliseconds)
NsPerMs == 1000000

MaxClockMs == MaxTimeMs + MaxLeewayMs + 1

RECURSIVE Pow2(_)
Pow2(n) == IF n = 0 THEN 1 ELSE 2 * Pow2(n - 1)

\* static_cast<std::int64_t>(uint64 timestamp): two's complement
\* reinterpretation on the model's word.
WordModulus == Pow2(TimestampBits)
SignBit == Pow2(TimestampBits - 1)
ToSigned(u) == IF u >= SignBit THEN u - WordModulus ELSE u

ToNanoseconds(ms) == ms * NsPerMs

(***************************************************************************)
(* Messages as the broker delivers them.                                   *)
(***************************************************************************)
SourceNames == {"A", "B"}
\* Schema ids with a registered flatbuffer reader / writer module.
Registry == {"f142", "ep00"}
UnknownTag == "xxxx"
NoTag == "none"

NameCode(n) == IF n = "A" THEN 0 ELSE 1
TagCode(t) == IF t = "f142" THEN 0 ELSE IF t = "ep00" THEN 1 ELSE 2

Timestamps ==
  ({0} \cup {ToNanoseconds(ms) + d : ms \in 1..MaxTimeMs, d \in {-1, 0, 1}})
    \cup {SignBit}

\* size: bytes of the payload; tag: bytes [4..8); name, ts: what the reader
\* of the schema extracts; verifies: the flatbuffer verifier accepts it.
WellFormedMessages ==
  [size : {16}, tag : Registry, name : {"A"}, ts : Timestamps,
   verifies : {TRUE}]
    \cup [size : {16}, tag : Registry, name : {"B"},
          ts : {NsPerMs, ToNanoseconds(MaxTimeMs) + 1}, verifies : {TRUE}]

MalformedMessages ==
  { [size |-> 7, tag |-> NoTag, name |-> "A", ts |-> NsPerMs, verifies |-> FALSE],
    [size |-> 8, tag |-> "f142", name |-> "A", ts |-> NsPerMs, verifies |-> TRUE],
    [size |-> 16, tag |-> UnknownTag, name |-> "A", ts |-> NsPerMs, verifies |-> TRUE],
    [size |-> 16, tag |-> "f142", name |-> "A", ts |-> NsPerMs, verifies |-> FALSE] }

RawMessages == WellFormedMessages \cup MalformedMessages

NoMsg == [size |-> 0, tag |-> NoTag, name |-> "A", ts |-> 0, verifies |-> FALSE]

PollStatuses == {"Message", "Empty", "EndOfPartition", "TimedOut", "Error"}

\* What WriterModule->write can do.
WriteOutcomes == {"OK", "ERROR", "WriterException", "OtherException"}


(***************************************************************************)
(* State.                                                                  *)
(***************************************************************************)
VARIABLES
  \* ---- Streamer (one partition consumer of one topic) ----
  Options,              \* StreamerOptions: start/stop time, leeway (ms)
  clock,                \* wall clock, getCurrentTimeStampMS() (ms)
  ConsumerInitialised,  \* the std::future of initTopics
  RunStatus,            \* std::atomic<StreamerStatus>
  Consumer,             \* the ConsumerPtr member: "null" or "set"
  \* ---- DemuxTopic / Source ----
  sources,              \* the demultiplexer's map: source hash -> Source
  moduleLog,            \* per writer module: the calls it has received
  removed,              \* hashes removed from the demultiplexer so far
  \* ---- the call that ended last ----
  last,
  crashed,              \* the process was ended by undefined behaviour
  \* ---- HDFFile and the target path on disk ----
  fileOnDisk,           \* the target path: "absent", "other" (a file that
                        \* is not ours), "created" (ours, every group of the
                        \* template present), "createdPartial" (ours, a
                        \* group of the template missing)
  H5File,               \* the hdf5::file::File member: "invalid" or "valid"
  Filename,             \* HDFFile::Filename: "" or the target path
  SWMREnabled,
  StructureStored,      \* HDFFile::NexusStructure holds the template
  hdf,                  \* progress of the HDFFile object (pc), the SWMR
                        \* argument of init, and the job's stop() calls
  closeCount,           \* calls of H5File.close()
  openCount,            \* successful create/open of the file
  \* ---- the NeXus structure and what the walks over it did ----
  Template,             \* the "children" of nexus_structure, in document
                        \* order, each node with its nesting depth
  walk,                 \* result of createHDFStructures and of addLinks
  \* ---- a writer module and the group of the file it writes to ----
  HDFGroup,             \* the datasets of the group and their elements
  module,               \* the HDFWriterModule object
  \* ---- the partition consumers of one job, each on its own thread ----
  job,                  \* per thread: where it is in Source's code, and
                        \* whether the job's file is flushed for SWMR
  \* ---- Master ----
  master,                \* Master::run's position, do_run, stream_masters
  \* ---- the process: main() and the thread that runs Master::run ----
  proc,                  \* position of main, options, signal flag, exit
  \* ---- DemuxTopic::add_source ----
  demux,                 \* _sources_map, and the keys add_source was given
  \* ---- Streamer::Streamer and the asynchronous initTopics ----
  topics,                \* constructor arguments, the calls initTopics made
                        \* on the consumer, and what it returned
  \* ---- writeDataset and populateBlob ----
  blob,                  \* the template node or the JSON value last handled,
                        \* and what was created, written or thrown
  \* ---- several Streamers in pollAndProcess on one DemuxTopic ----
  streamers,             \* per Streamer: where it is in pollAndProcess, the
                        \* message it holds, and how its last call ended
  \* ---- the legacy Streamer (Streamer.cxx) looking for its initial time ----
  legacy                \* the partition, the offsets the Streamer keeps, the
                        \* consumer's position, and the depth of the recursion

streamerVars == <<Options, clock, ConsumerInitialised, RunStatus, Consumer>>
sourceVars == <<sources, moduleLog, removed>>
callVars == <<last, crashed>>
hdfVars == <<fileOnDisk, H5File, Filename, SWMREnabled, StructureStored, hdf,
             closeCount, openCount>>
structureVars == <<Template, walk>>
writerVars == <<HDFGroup, module>>
jobVars == <<job>>
masterVars == <<master>>
procVars == <<proc>>
demuxVars == <<demux>>
topicsVars == <<topics>>
blobVars == <<blob>>
sharedVars == <<streamers>>
legacyVars == <<legacy>>
subsystemVars == <<structureVars, writerVars, jobVars, masterVars, procVars, demuxVars, topicsVars, blobVars, sharedVars, legacyVars>>
coreVars == <<streamerVars, sourceVars, callVars, hdfVars>>
notStructureVars == <<coreVars, writerVars, jobVars, masterVars, procVars, demuxVars, topicsVars, blobVars, sharedVars, legacyVars>>
notWriterVars == <<coreVars, structureVars, jobVars, masterVars, procVars, demuxVars, topicsVars, blobVars, sharedVars, legacyVars>>
notJobVars == <<coreVars, structureVars, writerVars, masterVars, procVars, demuxVars, topicsVars, blobVars, sharedVars, legacyVars>>
notMasterVars == <<coreVars, structureVars, writerVars, jobVars, procVars, demuxVars, topicsVars, blobVars, sharedVars, legacyVars>>
notProcVars == <<coreVars, structureVars, writerVars, jobVars, masterVars, demuxVars, topicsVars, blobVars, sharedVars, legacyVars>>
notDemuxVars == <<coreVars, structureVars, writerVars, jobVars, masterVars, procVars, topicsVars, blobVars, sharedVars, legacyVars>>
notTopicsVars == <<coreVars, structureVars, writerVars, jobVars, masterVars, procVars, demuxVars, blobVars, sharedVars, legacyVars>>
notBlobVars == <<coreVars, structureVars, writerVars, jobVars, masterVars, procVars, demuxVars, topicsVars, sharedVars, legacyVars>>
notSharedVars == <<coreVars, structureVars, writerVars, jobVars, masterVars, procVars, demuxVars, topicsVars, blobVars, legacyVars>>
notLegacyVars == <<coreVars, structureVars, writerVars, jobVars, masterVars, procVars, demuxVars, topicsVars, blobVars, sharedVars>>
earlierSubsystemVars == <<structureVars, writerVars, jobVars, masterVars, procVars, demuxVars, topicsVars, blobVars>>
subsystemVarsButShared == <<earlierSubsystemVars, legacyVars>>
subsystemVarsButLegacy == <<earlierSubsystemVars, sharedVars>>
vars == <<coreVars, subsystemVars>>

(***************************************************************************)
(* StreamerStatus.  The throw in pollAndProcess compares with              *)
(* IS_CONNECTED: the error values and NOT_INITIALIZED lie below it.        *)
(***************************************************************************)
StreamerStatuses ==
  {"NOT_INITIALIZED", "CONFIGURATION_ERROR", "TOPIC_PARTITION_ERROR",
   "IS_CONNECTED", "HAS_FINISHED", "WRITING"}

StatusValue(s) ==
  CASE s = "WRITING" -> 2
    [] s = "HAS_FINISHED" -> 1
    [] s = "IS_CONNECTED" -> 0
    [] s = "CONFIGURATION_ERROR" -> 0 - 1
    [] s = "TOPIC_PARTITION_ERROR" -> 0 - 2
    [] OTHER -> 0 - 1000

(***************************************************************************)
(* FlatbufferMessage: construction validates the buffer, then the reader   *)
(* of the schema gives the source name, the timestamp and the source hash. *)
(***************************************************************************)
FlatbufferMessageIsValid(raw) ==
  /\ raw.size >= 8
  /\ raw.tag \in Registry
  /\ raw.verifies

calcSourceHash(tag, name) == (2 * TagCode(tag) + NameCode(name)) % HashBuckets

getSourceHash(M) == calcSourceHash(M.tag, M.name)

(***************************************************************************)
(* Streamer.cpp: the time window tests.                                    *)
(***************************************************************************)
stopTimeElapsed(MessageTimestamp, Stoptime) ==
  /\ Stoptime > 0
  /\ ToSigned(MessageTimestamp) > ToNanoseconds(Stoptime)

stopTimeExceeded_UnsetStopTime(SystemTime, Opts) ==
  SystemTime > Opts.StopTimestamp + Opts.AfterStopTime

stopTimeExceeded(SystemTime, Opts) ==
  /\ Opts.StopTimestamp > 0
  /\ SystemTime > Opts.StopTimestamp + Opts.AfterStopTime

\* The timestamp test left out.
MessageHasNoTimestamp_Unchecked(M) == FALSE

MessageHasNoTimestamp(M) == M.ts = 0

\* The start test made inclusive.
BeforeStartTimestamp_Inclusive(M, Opts) ==
  ToSigned(M.ts) <= ToNanoseconds(Opts.StartTimestamp)

BeforeStartTimestamp(M, Opts) ==
  ToSigned(M.ts) < ToNanoseconds(Opts.StartTimestamp)

SourceIsUnknown(M, Sources) == getSourceHash(M) \notin DOMAIN Sources


(***************************************************************************)
(* Source and its writer module.                                           *)
(***************************************************************************)
\* The sources the job binds to the topic: <<schema id, source name>>.
RegisteredKeys == {<<"f142", "A">>, <<"ep00", "A">>}

NullModule == <<NoTag, "null">>

\* Source::Source(Name, ID, Writer).  The message counters of a Source
\* (_cnt_msg_written, _processed_messages_count) are statistics that no
\* code path reads; they are not part of the state.
NewSource(Name, ID, Writer) ==
  [SourceName |-> Name, SchemaID |-> ID, WriterModule |-> Writer,
   is_parallel |-> FALSE]

NewModuleLog ==
  [flush |-> 0, close |-> 0, closeBeforeFlush |-> FALSE,
   flushAfterClose |-> FALSE, writeAfterClose |-> FALSE]

InitialSources ==
  [h \in {calcSourceHash(k[1], k[2]) : k \in RegisteredKeys} |->
     LET k == CHOOSE k \in RegisteredKeys : calcSourceHash(k[1], k[2]) = h
     IN  NewSource(k[2], k[1], k)]

\* The bytes [4..8) of the message differ from the SchemaID of the Source.
SchemaIdMismatch(S, M) == M.tag # S.SchemaID

\* What a writer module records of the calls it receives.
LogWrite(Log, W) ==
  [Log EXCEPT ![W].writeAfterClose = @ \/ Log[W].close > 0]

LogFlush(Log, W) ==
  [Log EXCEPT ![W].flush = @ + 1,
              ![W].flushAfterClose = @ \/ Log[W].close > 0]

LogClose(Log, W) ==
  [Log EXCEPT ![W].close = @ + 1,
              ![W].closeBeforeFlush = @ \/ Log[W].flush = 0]

\* process_message without its catch clause.
process_message_NoCatch(S, M, WOut) ==
  IF M.tag # S.SchemaID \/ S.is_parallel \/ S.WriterModule = NullModule
    THEN [result |-> "ERR", source |-> S, wrote |-> FALSE]
  ELSE IF WOut \in {"WriterException", "OtherException"}
    THEN [result |-> "THROW", source |-> S, wrote |-> TRUE]
  ELSE [result |-> IF WOut = "OK" THEN "OK" ELSE "ERR", source |-> S,
        wrote |-> TRUE]

\* process_message that drops the writer module after a failed write.
process_message_ResetOnError(S, M, WOut) ==
  IF M.tag # S.SchemaID \/ S.is_parallel \/ S.WriterModule = NullModule
    THEN [result |-> "ERR", source |-> S, wrote |-> FALSE]
  ELSE IF WOut = "OtherException"
    THEN [result |-> "THROW", source |-> S, wrote |-> TRUE]
  ELSE IF WOut = "OK"
    THEN [result |-> "OK", source |-> S, wrote |-> TRUE]
  ELSE [result |-> "ERR", source |-> [S EXCEPT !.WriterModule = NullModule],
        wrote |-> TRUE]

\* Source::process_message.  WOut is what WriterModule->write does with the
\* message.  result "THROW": an exception leaves process_message.
process_message(S, M, WOut) ==
  IF SchemaIdMismatch(S, M)
    THEN [result |-> "ERR", source |-> S, wrote |-> FALSE]
  ELSE IF S.is_parallel
    THEN [result |-> "ERR", source |-> S, wrote |-> FALSE]
  ELSE IF S.WriterModule = NullModule
    THEN [result |-> "ERR", source |-> S, wrote |-> FALSE]
  ELSE IF WOut = "WriterException"
    THEN [result |-> "ERR", source |-> S, wrote |-> TRUE]
  ELSE IF WOut = "OtherException"
    THEN [result |-> "THROW", source |-> S, wrote |-> TRUE]
  ELSE [result |-> IF WOut = "OK" THEN "OK" ELSE "ERR", source |-> S,
        wrote |-> TRUE]

\* close_writer_module that keeps the pointer to the closed module.
close_writer_module_NoReset(S, Log) ==
  IF S.WriterModule # NullModule
    THEN [source |-> S,
          log |-> LogClose(LogFlush(Log, S.WriterModule), S.WriterModule)]
    ELSE [source |-> S, log |-> Log]

\* Source::close_writer_module: flush, close and reset the module, if any.
close_writer_module(S, Log) ==
  IF S.WriterModule # NullModule
    THEN [source |-> [S EXCEPT !.WriterModule = NullModule],
          log |-> LogClose(LogFlush(Log, S.WriterModule), S.WriterModule)]
    ELSE [source |-> S, log |-> Log]

\* Source::~Source
DestroySource(S, Log) == close_writer_module(S, Log).log

\* DemuxTopic::removeSource: erases the entry, which destroys the Source.
removeSource(Sources, Hash) ==
  IF Hash \in DOMAIN Sources
    THEN [ok |-> TRUE,
          sources |-> [h \in DOMAIN Sources \ {Hash} |-> Sources[h]]]
    ELSE [ok |-> FALSE, sources |-> Sources]


(***************************************************************************)
(* Streamer.                                                               *)
(***************************************************************************)
Results == {"OK", "ERR", "STOP"}

Outcome(res, br, Srcs, Log, W, Rem, Did) ==
  [result |-> res, branch |-> br, sources |-> Srcs, log |-> Log,
   wrote |-> W, removedHash |-> Rem, writeDid |-> Did]

NoWrite_ClearsSources(res, br, Srcs, Log) ==
  Outcome(res, br, [h \in {} |-> Srcs[h]], Log, NullModule, 0 - 1, "none")

NoWrite(res, br, Srcs, Log) ==
  Outcome(res, br, Srcs, Log, NullModule, 0 - 1, "none")

\* DemuxTopic::process_message: the Source registered under the hash of the
\* message processes it.
DemuxTopic_process_message(Srcs, Log, M, WOut) ==
  LET h  == getSourceHash(M)
      pm == process_message(Srcs[h], M, WOut)
  IN  IF pm.wrote
        THEN Outcome(pm.result, "Written", [Srcs EXCEPT ![h] = pm.source],
                     LogWrite(Log, Srcs[h].WriterModule),
                     Srcs[h].WriterModule, 0 - 1, WOut)
        ELSE NoWrite(pm.result, "Rejected", [Srcs EXCEPT ![h] = pm.source],
                     Log)

\* Streamer::pollAndProcess from Consumer->poll() on: Poll and Raw are what
\* the broker consumer returns, Now the wall clock.
consumeAndProcess(Srcs, Log, Opts, Now, Poll, Raw, WOut) ==
  IF Poll = "Error"
    THEN NoWrite("ERR", "PollError", Srcs, Log)
  ELSE IF Poll \in {"Empty", "EndOfPartition", "TimedOut"}
    THEN IF stopTimeExceeded(Now, Opts)
           THEN NoWrite("STOP", "StopTimeExceeded", Srcs, Log)
           ELSE NoWrite("OK", "Idle", Srcs, Log)
  ELSE IF ~FlatbufferMessageIsValid(Raw)
    THEN NoWrite("ERR", "BadPayload", Srcs, Log)
  ELSE IF MessageHasNoTimestamp(Raw)
    THEN NoWrite("ERR", "MissingTimestamp", Srcs, Log)
  ELSE IF SourceIsUnknown(Raw, Srcs)
    THEN NoWrite("OK", "UnknownSource", Srcs, Log)
  ELSE IF BeforeStartTimestamp(Raw, Opts)
    THEN NoWrite("OK", "Filtered", Srcs, Log)
  ELSE IF stopTimeElapsed(Raw.ts, Opts.StopTimestamp)
    THEN LET h == getSourceHash(Raw)
             r == removeSource(Srcs, h)
         IN  IF r.ok
               THEN Outcome("STOP", "SourceCompleted", r.sources,
                            DestroySource(Srcs[h], Log), NullModule, h,
                            "none")
               ELSE NoWrite("ERR", "CantRemove", Srcs, Log)
  ELSE DemuxTopic_process_message(Srcs, Log, Raw, WOut)

\* The outcomes of one poll: one for each thing the writer module's write
\* can do, if the message reaches it.
PossibleOutcomes(Srcs, Log, Opts, Now, Poll, Raw) ==
  LET o == consumeAndProcess(Srcs, Log, Opts, Now, Poll, Raw, "OK")
  IN  IF o.wrote = NullModule
        THEN {o}
        ELSE {consumeAndProcess(Srcs, Log, Opts, Now, Poll, Raw, w) :
                w \in WriteOutcomes}

\* initTopics: the asynchronous task behind ConsumerInitialised.
initTopics(AddTopicThrows, TopicPresent) ==
  IF AddTopicThrows
    THEN [status |-> "CONFIGURATION_ERROR", consumer |-> "null"]
  ELSE IF ~TopicPresent
    THEN [status |-> "TOPIC_PARTITION_ERROR", consumer |-> "null"]
  ELSE [status |-> "WRITING", consumer |-> "set"]

NoCall ==
  [op |-> "none", result |-> "none", branch |-> "none", poll |-> "none",
   msg |-> NoMsg, wrote |-> NullModule, removedHash |-> 0 - 1,
   writeDid |-> "none", polled |-> FALSE]

\* The asynchronous initialisation completes.
InitTopicsCompletes ==
  /\ ~crashed
  /\ ConsumerInitialised.state = "pending"
  /\ \E throws \in BOOLEAN, present \in BOOLEAN :
       LET r == initTopics(throws, present)
       IN  ConsumerInitialised' =
             [state |-> "ready", status |-> r.status, consumer |-> r.consumer]
  /\ UNCHANGED <<Options, clock, RunStatus, Consumer, sourceVars, callVars,
                 hdfVars, subsystemVars>>

\* Streamer::close
Streamer_close ==
  /\ ~crashed
  /\ RunStatus' = "HAS_FINISHED"
  /\ last' = [NoCall EXCEPT !.op = "close", !.result = "HAS_FINISHED"]
  /\ UNCHANGED <<Options, clock, ConsumerInitialised, Consumer, sourceVars,
                 crashed, hdfVars, subsystemVars>>

\* ConsumerInitialised.valid(): the result has not been taken with get().
future_valid(Future) == Future.state # "invalid"

\* ConsumerInitialised.wait_for(100 ms) == std::future_status::ready
future_ready_Always(Future) == TRUE

future_ready(Future) == Future.state = "ready"

\* Streamer::pollAndProcess
pollAndProcess ==
  /\ ~crashed
  /\ UNCHANGED <<Options, clock, hdfVars, subsystemVars>>
  /\ IF /\ Consumer = "null" /\ future_valid(ConsumerInitialised)
        /\ ~future_ready(ConsumerInitialised)
       THEN \* ifConsumerIsReadyThenAssignIt: not ready
            /\ last' = [NoCall EXCEPT !.op = "pollAndProcess",
                                      !.result = "OK", !.branch = "NotReady"]
            /\ UNCHANGED <<ConsumerInitialised, RunStatus, Consumer,
                           sourceVars, crashed>>
       ELSE
         LET take      == Consumer = "null" /\ future_valid(ConsumerInitialised)
             status1   == IF take THEN ConsumerInitialised.status ELSE RunStatus
             consumer1 == IF take THEN ConsumerInitialised.consumer ELSE Consumer
         IN
         /\ ConsumerInitialised' =
              IF take THEN [ConsumerInitialised EXCEPT !.state = "invalid"]
                      ELSE ConsumerInitialised
         /\ RunStatus' = status1
         /\ Consumer' = consumer1
         /\ IF StatusValue(status1) < StatusValue("IS_CONNECTED")
              THEN \* throw std::runtime_error(Err2Str(RunStatus))
                   /\ last' = [NoCall EXCEPT !.op = "pollAndProcess",
                                             !.result = "THROW",
                                             !.branch = "StatusError"]
                   /\ UNCHANGED <<sourceVars, crashed>>
            ELSE IF consumer1 = "null"
              THEN \* Consumer->poll() through a null pointer
                   /\ \E c \in BOOLEAN, r \in Results :
                        /\ crashed' = c
                        /\ last' = [NoCall EXCEPT !.op = "pollAndProcess",
                                       !.result = IF c THEN "CRASH" ELSE r,
                                       !.branch = "NullConsumer"]
                   /\ UNCHANGED sourceVars
            ELSE \E poll \in PollStatuses :
                 \E raw \in IF poll = "Message" THEN RawMessages ELSE {NoMsg} :
                 \E o \in PossibleOutcomes(sources, moduleLog, Options,
                                           clock, poll, raw) :
                   /\ sources' = o.sources
                   /\ moduleLog' = o.log
                   /\ removed' = IF o.removedHash >= 0
                                   THEN removed \cup {o.removedHash}
                                   ELSE removed
                   /\ last' = [op |-> "pollAndProcess", result |-> o.result,
                               branch |-> o.branch, poll |-> poll,
                               msg |-> raw, wrote |-> o.wrote,
                               removedHash |-> o.removedHash,
                               writeDid |-> o.writeDid, polled |-> TRUE]
                   /\ UNCHANGED crashed

\* Wall-clock time passes.
Tick ==
  /\ ~crashed
  /\ clock < MaxClockMs
  /\ clock' = clock + 1
  /\ UNCHANGED <<Options, ConsumerInitialised, RunStatus, Consumer,
                 sourceVars, callVars, hdfVars, subsystemVars>>

(***************************************************************************)
(* Initial states.                                                         *)
(***************************************************************************)
\* A job whose start time lies after its stop time is rejected before a
\* Streamer is made for it.
ValidOptions(o) == o.StopTimestamp = 0 \/ o.StartTimestamp <= o.StopTimestamp

InitStreamerVars ==
  /\ Options \in {o \in [StartTimestamp : 0..MaxTimeMs,
                         StopTimestamp : 0..MaxTimeMs,
                         AfterStopTime : 0..MaxLeewayMs] : ValidOptions(o)}
  /\ clock = 0
  /\ ConsumerInitialised =
       [state |-> "pending", status |-> "NOT_INITIALIZED", consumer |-> "null"]
  /\ RunStatus = "NOT_INITIALIZED"
  /\ Consumer = "null"

InitSourceVars ==
  /\ sources = InitialSources
  /\ moduleLog = [k \in RegisteredKeys |-> NewModuleLog]
  /\ removed = {}

InitCallVars ==
  /\ last = NoCall
  /\ crashed = FALSE

InitHdfVars ==
  /\ fileOnDisk = "absent"
  /\ H5File = "invalid"
  /\ Filename = ""
  /\ SWMREnabled = FALSE
  /\ StructureStored = FALSE
  /\ hdf = [pc |-> "constructed", UseHDFSWMR |-> FALSE, stopCalls |-> 0]
  /\ closeCount = 0
  /\ openCount = 0

\* Nothing of the NeXus structure has been walked.
NewWalk ==
  [pc |-> "parsed", HDFStreamInfo |-> <<>>, Path |-> <<>>, Groups |-> {},
   Datasets |-> {}, Visited |-> <<>>, Links |-> {}, threw |-> FALSE,
   finalizeThrew |-> FALSE]

InitStructureVars ==
  /\ Template = <<>>
  /\ walk = NewWalk

\* The datasets writer modules make in their group.
f142Datasets == {"value", "time", "cue_timestamp_zero", "cue_index"}
ep00Datasets == {"connection_status_time", "connection_status"}
DatasetNames == f142Datasets \cup ep00Datasets

EmptyGroup == [exists |-> {}, data |-> [n \in DatasetNames |-> <<>>]]

\* A writer module after construction and parse_config.
NewModule(kind, every) ==
  [kind |-> kind, impl |-> FALSE, handles |-> {},
   index_every_bytes |-> every, total_written_bytes |-> 0,
   index_at_bytes |-> 0, ts_max |-> 0,
   calls |-> 0, written |-> <<>>, op |-> "none", result |-> "none",
   onInitialised |-> FALSE, groupChanged |-> FALSE]

InitWriterVars ==
  /\ HDFGroup = EmptyGroup
  /\ module = NewModule("f142", 0)

\* A job whose sources have not been set up.
NoJob == [HDFFileForSWMR |-> FALSE, thread |-> <<>>]

InitJobVars == job = NoJob

\* Master after construction, run() at the head of its loop.
NoStatus == [type |-> "none", service_id |-> "none", files |-> <<>>]

NewMaster ==
  [pc |-> "loop", do_run |-> TRUE, HasExitedRunLoop |-> FALSE,
   stream_masters |-> <<>>, created |-> 0, op |-> "none",
   do_kafka_status |-> FALSE, status_producer |-> FALSE,
   published |-> NoStatus, elapsed |-> FALSE, jobsAtStatus |-> {}]

InitMasterVars == master = NewMaster

\* The process before main() has run; the options are what the command
\* line gives.
NoProc ==
  [pc |-> "start", cli |-> "ok", CommandsJson |-> "none",
   ListWriterModules |-> FALSE, use_signal_handler |-> FALSE,
   parsed |-> "none", GotSignal |-> FALSE, do_run |-> TRUE,
   HasExitedRunLoop |-> FALSE, MasterThread |-> "none", exit |-> "none",
   loop |-> "test", stopped |-> FALSE, pollsAfterStop |-> 0]

InitProcVars == proc = NoProc

\* A DemuxTopic without sources.
NoDemux == [_sources_map |-> <<>>, added |-> {}, destroyed |-> {}]

InitDemuxVars == demux = NoDemux

NoTopics ==
  [pc |-> "none", Broker |-> "", TopicName |-> "", StartTimestamp |-> 0,
   BeforeStartTime |-> 0, calls |-> <<>>, offset |-> <<"none">>,
   result |-> [status |-> "NOT_INITIALIZED", consumer |-> "null"]]

InitTopicsVars == topics = NoTopics

\* A JSON value of the template: a leaf (integer, float or string, with an
\* identity so that values can be told apart) or an array of JSON values.
NoJson == [arr |-> FALSE, items |-> <<>>, leaf |-> "absent", id |-> 0]

NoNode ==
  [name |-> "", space |-> "absent", typeKey |-> "none", type |-> "none",
   size |-> <<>>, string_size |-> 0, values |-> NoJson]

NoBlobCall ==
  [Handler |-> "none", ValueJson |-> NoJson, GoalSize |-> 0, ItemLength |-> 0]

NoBlobResult == [threw |-> FALSE, Buffer |-> <<>>]

NoDatasetResult ==
  [outcome |-> "none", created |-> FALSE, dtype |-> "none",
   ElementSize |-> 0, data |-> <<>>]

NoBlob ==
  [op |-> "none", node |-> NoNode, call |-> NoBlobCall,
   returned |-> NoBlobResult, result |-> NoDatasetResult]

InitBlobVars == blob = NoBlob

\* No Streamer is inside pollAndProcess.
NoStreamers == <<>>

InitSharedVars == streamers = NoStreamers

\* No legacy Streamer was made.
NoLegacy == [pc |-> "none"]

InitLegacyVars == legacy = NoLegacy

InitSubsystemVars ==
  /\ InitStructureVars
  /\ InitWriterVars
  /\ InitJobVars
  /\ InitMasterVars
  /\ InitProcVars
  /\ InitDemuxVars
  /\ InitTopicsVars
  /\ InitBlobVars
  /\ InitSharedVars
  /\ InitLegacyVars

Init ==
  /\ InitStreamerVars /\ InitSourceVars /\ InitCallVars /\ InitHdfVars
  /\ InitSubsystemVars

Next ==
  \/ InitTopicsCompletes
  \/ pollAndProcess
  \/ Streamer_close
  \/ Tick

Spec == Init /\ [][Next]_vars


(***************************************************************************)
(* A Source driven directly: process_message, close_writer_module and the  *)
(* destructor, in any order.                                               *)
(***************************************************************************)
FlatbufferMessages == {m \in RawMessages : FlatbufferMessageIsValid(m)}

Source_process_message ==
  \E h \in DOMAIN sources, m \in FlatbufferMessages, wout \in WriteOutcomes :
    \E pm \in {process_message(sources[h], m, wout)} :
      /\ ~pm.wrote => wout = "OK"
      /\ sources' = [sources EXCEPT ![h] = pm.source]
      /\ moduleLog' = IF pm.wrote
                        THEN LogWrite(moduleLog, sources[h].WriterModule)
                        ELSE moduleLog
      /\ last' = [NoCall EXCEPT !.op = "process_message",
                                !.result = pm.result,
                                !.msg = m,
                                !.wrote = IF pm.wrote
                                            THEN sources[h].WriterModule
                                            ELSE NullModule,
                                !.writeDid = IF pm.wrote THEN wout ELSE "none"]
      /\ UNCHANGED <<streamerVars, removed, crashed, hdfVars,
                     subsystemVars>>

Source_close_writer_module ==
  \E h \in DOMAIN sources :
    \E r \in {close_writer_module(sources[h], moduleLog)} :
      /\ sources' = [sources EXCEPT ![h] = r.source]
      /\ moduleLog' = r.log
      /\ last' = [NoCall EXCEPT !.op = "close_writer_module"]
      /\ UNCHANGED <<streamerVars, removed, crashed, hdfVars,
                     subsystemVars>>

\* Source::~Source
Source_destructor ==
  \E h \in DOMAIN sources :
    /\ sources' = [g \in DOMAIN sources \ {h} |-> sources[g]]
    /\ moduleLog' = DestroySource(sources[h], moduleLog)
    /\ removed' = removed \cup {h}
    /\ last' = [NoCall EXCEPT !.op = "~Source"]
    /\ UNCHANGED <<streamerVars, crashed, hdfVars, subsystemVars>>

InitSource ==
  /\ Options = [StartTimestamp |-> 0, StopTimestamp |-> 0, AfterStopTime |-> 0]
  /\ clock = 0
  /\ ConsumerInitialised =
       [state |-> "pending", status |-> "NOT_INITIALIZED", consumer |-> "null"]
  /\ RunStatus = "NOT_INITIALIZED"
  /\ Consumer = "null"
  /\ InitSourceVars /\ InitCallVars /\ InitHdfVars
  /\ InitSubsystemVars

NextSource ==
  \/ Source_process_message
  \/ Source_close_writer_module
  \/ Source_destructor

SpecSource == InitSource /\ [][NextSource]_vars

\* The Source that was constructed with writer module k is destroyed.
SourceDestroyed(k) == calcSourceHash(k[1], k[2]) \notin DOMAIN sources

\* C7: flush() and close() of a Source's writer module are each invoked at
\* most once, flush before close, never a write after close; and once the
\* module has been given up (the Source was closed or destroyed) each has
\* been invoked exactly once.
C7_FlushCloseExactlyOnce ==
  \A k \in RegisteredKeys :
    /\ moduleLog[k].flush <= 1
    /\ moduleLog[k].close <= 1
    /\ ~moduleLog[k].closeBeforeFlush
    /\ ~moduleLog[k].flushAfterClose
    /\ ~moduleLog[k].writeAfterClose
    /\ SourceDestroyed(k) => moduleLog[k].flush = 1 /\ moduleLog[k].close = 1
    /\ ~SourceDestroyed(k) =>
         LET S == sources[calcSourceHash(k[1], k[2])]
         IN  /\ S.WriterModule \in {k, NullModule}
             /\ S.WriterModule = k =>
                  moduleLog[k].flush = 0 /\ moduleLog[k].close = 0
             /\ S.WriterModule = NullModule =>
                  moduleLog[k].flush = 1 /\ moduleLog[k].close = 1

\* A Source that held a writer module has been destroyed.
C7_Witness ==
  \E k \in RegisteredKeys :
    /\ SourceDestroyed(k)
    /\ moduleLog[k].flush = 1
    /\ moduleLog[k].close = 1
    /\ last.op = "~Source"

(***************************************************************************)
(* The job's file: HDFFile::init, close, finalize and the destructor, the  *)
(* job's stop(), and another process that may create the target file.      *)
(***************************************************************************)
MaxStopCalls == 2

TargetPath == "file.nxs"

ThisFile ==
  [H5File |-> H5File, Filename |-> Filename, fileOnDisk |-> fileOnDisk,
   StructureStored |-> StructureStored, closeCount |-> closeCount,
   openCount |-> openCount]

\* close() that forgets to replace the closed handle by an invalid one.
HDFFile_close_KeepsHandle(F) ==
  IF F.H5File = "valid"
    THEN [F EXCEPT !.closeCount = @ + 1]
    ELSE F

\* HDFFile::close: flush and close a valid handle, only log otherwise.
HDFFile_close(F) ==
  IF F.H5File = "valid"
    THEN [F EXCEPT !.closeCount = @ + 1, !.H5File = "invalid"]
    ELSE F

\* addLinks throws when the stored structure is not a JSON object (it was
\* never stored) and when get_group does not find a group of the template.
addLinksThrows(F) == ~F.StructureStored \/ F.fileOnDisk # "created"

\* HDFFile::finalize: close, open again read-write, add the links.
HDFFile_finalize(F) ==
  IF F.Filename = ""
    THEN [file |-> F, threw |-> FALSE]
    ELSE LET Closed == IF F.H5File = "valid" THEN HDFFile_close(F) ELSE F
             Opened == [Closed EXCEPT !.H5File = "valid", !.openCount = @ + 1]
         IN  [file |-> Opened, threw |-> addLinksThrows(Opened)]

\* HDFFile::init, first part: the existence check with std::ifstream.
HDFFile_init_check ==
  /\ hdf.pc = "constructed"
  /\ \E UseHDFSWMR \in BOOLEAN :
       IF fileOnDisk # "absent"
         THEN /\ hdf' = [hdf EXCEPT !.pc = "initFailed"]
              /\ last' = [NoCall EXCEPT !.op = "HDFFile::init",
                                        !.result = "THROW",
                                        !.branch = "ExistsAlready"]
         ELSE /\ hdf' = [hdf EXCEPT !.pc = "creating",
                                    !.UseHDFSWMR = UseHDFSWMR]
              /\ last' = [NoCall EXCEPT !.op = "HDFFile::init",
                                        !.branch = "Checked"]
  /\ UNCHANGED <<subsystemVars, streamerVars, sourceVars, crashed,
                 fileOnDisk, H5File,
                 Filename, SWMREnabled, StructureStored, closeCount,
                 openCount>>

\* HDFFile::init, second part: hdf5::file::create, then the structure.
\* TRUNCATE creates the file whatever is at the path; EXCLUSIVE fails when
\* the path exists.
HDFFile_init_create ==
  /\ hdf.pc = "creating"
  /\ IF ~hdf.UseHDFSWMR /\ fileOnDisk # "absent"
       THEN /\ hdf' = [hdf EXCEPT !.pc = "initFailed"]
            /\ last' = [NoCall EXCEPT !.op = "HDFFile::init",
                                      !.result = "THROW",
                                      !.branch = "CreateFailed"]
            /\ UNCHANGED <<fileOnDisk, H5File, Filename, SWMREnabled,
                           StructureStored, openCount>>
       ELSE \E structure \in {"complete", "partial", "throws"} :
              /\ H5File' = "valid"
              /\ openCount' = openCount + 1
              /\ SWMREnabled' = hdf.UseHDFSWMR
              /\ Filename' = TargetPath
              /\ fileOnDisk' = IF structure = "complete"
                                 THEN "created" ELSE "createdPartial"
              /\ StructureStored' = (structure # "throws")
              /\ hdf' = [hdf EXCEPT !.pc = IF structure = "throws"
                                             THEN "initFailed"
                                             ELSE "initialised"]
              /\ last' = [NoCall EXCEPT
                            !.op = "HDFFile::init",
                            !.result = IF structure = "throws"
                                         THEN "THROW" ELSE "OK",
                            !.branch = IF fileOnDisk = "absent"
                                         THEN "Created" ELSE "Truncated"]
  /\ UNCHANGED <<subsystemVars, streamerVars, sourceVars, crashed,
                 closeCount>>

\* Another process creates a file at the target path.
OtherProcessCreatesFile ==
  /\ fileOnDisk = "absent"
  /\ fileOnDisk' = "other"
  /\ last' = [NoCall EXCEPT !.op = "OtherProcess"]
  /\ UNCHANGED <<subsystemVars, streamerVars, sourceVars, crashed,
                 H5File, Filename,
                 SWMREnabled, StructureStored, hdf, closeCount, openCount>>

\* A call of HDFFile::close from outside of the destructor.
HDFFile_close_call ==
  /\ hdf.pc \in {"constructed", "initialised", "initFailed"}
  /\ \E F \in {HDFFile_close(ThisFile)} :
       /\ H5File' = F.H5File
       /\ closeCount' = F.closeCount
  /\ last' = [NoCall EXCEPT !.op = "HDFFile::close",
                            !.result = IF H5File = "valid"
                                         THEN "OK" ELSE "NotValid"]
  /\ UNCHANGED <<subsystemVars, streamerVars, sourceVars, crashed,
                 fileOnDisk, Filename,
                 SWMREnabled, StructureStored, hdf, openCount>>

\* stop() of the job: it asks the streams to stop and touches no file.
Job_stop ==
  /\ hdf.pc # "destroyed"
  /\ hdf.stopCalls < MaxStopCalls
  /\ hdf' = [hdf EXCEPT !.stopCalls = @ + 1]
  /\ last' = [NoCall EXCEPT !.op = "stop"]
  /\ UNCHANGED <<subsystemVars, streamerVars, sourceVars, crashed,
                 fileOnDisk, H5File,
                 Filename, SWMREnabled, StructureStored, closeCount,
                 openCount>>

\* HDFFile::~HDFFile: try { finalize(); close(); } catch (...) { log }
HDFFile_destructor ==
  /\ hdf.pc \in {"constructed", "initialised", "initFailed"}
  /\ \E fin \in {HDFFile_finalize(ThisFile)} :
       \E F \in {IF fin.threw THEN fin.file ELSE HDFFile_close(fin.file)} :
         /\ H5File' = F.H5File
         /\ closeCount' = F.closeCount
         /\ openCount' = F.openCount
         /\ last' = [NoCall EXCEPT !.op = "~HDFFile",
                                   !.result = IF fin.threw
                                                THEN "Caught" ELSE "OK"]
  /\ hdf' = [hdf EXCEPT !.pc = "destroyed"]
  /\ UNCHANGED <<subsystemVars, streamerVars, sourceVars, crashed,
                 fileOnDisk, Filename,
                 SWMREnabled, StructureStored>>

InitHDFFile ==
  /\ Options = [StartTimestamp |-> 0, StopTimestamp |-> 0, AfterStopTime |-> 0]
  /\ clock = 0
  /\ ConsumerInitialised =
       [state |-> "pending", status |-> "NOT_INITIALIZED", consumer |-> "null"]
  /\ RunStatus = "NOT_INITIALIZED"
  /\ Consumer = "null"
  /\ InitSourceVars /\ InitCallVars /\ InitHdfVars
  /\ InitSubsystemVars

NextHDFFile ==
  \/ HDFFile_init_check
  \/ HDFFile_init_create
  \/ OtherProcessCreatesFile
  \/ HDFFile_close_call
  \/ Job_stop
  \/ HDFFile_destructor

SpecHDFFile == InitHDFFile /\ [][NextHDFFile]_vars

\* A second stop() changes nothing but the number of calls.
StopTwiceIsStopOnce ==
  hdf.stopCalls >= 1 /\ hdf'.stopCalls = hdf.stopCalls + 1 =>
    /\ hdf'.pc = hdf.pc
    /\ UNCHANGED <<fileOnDisk, H5File, Filename, SWMREnabled,
                   StructureStored, closeCount, openCount>>

C10_InitNeverOverwrites ==
  [][ fileOnDisk = "other" =>
        fileOnDisk' = "other" /\ hdf'.pc # "initialised" ]_vars

\* pollAndProcess is called again and again while the job runs.
FairSpec == Spec /\ WF_vars(pollAndProcess)

(***************************************************************************)
(* Properties of the partition consumer.                                   *)
(***************************************************************************)
\* The step is a call of pollAndProcess.
CallStep == last' # last /\ last'.op = "pollAndProcess"

\* M names a Source that the demultiplexer Srcs holds.
RegisteredSourceOf(M, Srcs) ==
  \E h \in DOMAIN Srcs :
    Srcs[h].SourceName = M.name /\ Srcs[h].SchemaID = M.tag

\* M passes every test pollAndProcess makes before the stop-time test.
PassesToWindow(M, Srcs, Opts) ==
  /\ FlatbufferMessageIsValid(M)
  /\ ~MessageHasNoTimestamp(M)
  /\ RegisteredSourceOf(M, Srcs)
  /\ ~BeforeStartTimestamp(M, Opts)

\* C1: every message handed to a writer module's write has a payload of at
\* least 8 bytes, a non-zero timestamp, and a schema id that is registered
\* and equal to the schema id of the Source that receives it.
C1_EnvelopeIntegrity ==
  last.wrote # NullModule =>
    /\ last.msg.size >= 8
    /\ last.msg.ts > 0
    /\ last.msg.tag \in Registry
    /\ last.msg.tag = last.wrote[1]

C1_Witness ==
  /\ last.wrote # NullModule
  /\ last.result = "OK"
  /\ last.msg.size >= 8

\* C2 (as claimed): with a stop time set, a message of a registered source
\* whose timestamp is greater than the stop time makes pollAndProcess remove
\* the source, return STOP and not write; and no message is written to a
\* source that has been removed.
C2_StopTimePrunesSource ==
  [][ /\ ( /\ CallStep
           /\ last'.poll = "Message"
           /\ Options.StopTimestamp > 0
           /\ FlatbufferMessageIsValid(last'.msg)
           /\ RegisteredSourceOf(last'.msg, sources)
           /\ last'.msg.ts > ToNanoseconds(Options.StopTimestamp) )
         => ( /\ last'.result = "STOP"
              /\ ~RegisteredSourceOf(last'.msg, sources')
              /\ last'.wrote = NullModule )
      /\ (CallStep /\ last'.wrote # NullModule)
         => getSourceHash(last'.msg) \notin removed ]_vars

\* C3: a message whose timestamp is less than the start time is dropped:
\* the call returns without invoking a writer module and without removing
\* a source; a message whose timestamp equals the start time is not
\* filtered, it reaches the writer module of its source.
C3_FilteredBeforeStart ==
  [][ /\ ( /\ CallStep
           /\ last'.poll = "Message"
           /\ last'.msg.ts < ToNanoseconds(Options.StartTimestamp) )
         => ( /\ last'.wrote = NullModule
              /\ last'.result \in {"OK", "ERR"}
              /\ sources' = sources
              /\ moduleLog' = moduleLog
              /\ removed' = removed )
      /\ ( /\ CallStep
           /\ last'.poll = "Message"
           /\ last'.msg.ts = ToNanoseconds(Options.StartTimestamp) )
         => ( /\ last'.branch # "Filtered"
              /\ ( /\ FlatbufferMessageIsValid(last'.msg)
                   /\ last'.msg.ts > 0
                   /\ RegisteredSourceOf(last'.msg, sources) )
                 => last'.wrote # NullModule ) ]_vars

C3_Witness ==
  /\ last.branch = "Filtered"
  /\ last.msg.ts > 0
  /\ last.msg.ts < ToNanoseconds(Options.StartTimestamp)

\* C4 (as claimed): once the wall clock is past stop time + leeway, a
\* consumer that polls the broker eventually reports STOP.
C4_WallClockBoundStops ==
  ( /\ Options.StopTimestamp > 0
    /\ clock > Options.StopTimestamp + Options.AfterStopTime
    /\ Consumer = "set"
    /\ last.result # "STOP" )
  ~> (last.result = "STOP")

\* C5 (as claimed): after close() the run status stays HAS_FINISHED and no
\* later call of pollAndProcess polls the broker.
C5_FinishedIsTerminal ==
  [][ RunStatus = "HAS_FINISHED" =>
        /\ RunStatus' = "HAS_FINISHED"
        /\ CallStep => ~last'.polled ]_vars

\* C6 (as claimed): no call of pollAndProcess lets an exception escape.
C6_NoExceptionEscapes == last.result # "THROW"

\* C6 (amended): an exception leaves pollAndProcess only when the run
\* status is an error status after the initialisation has been collected,
\* or when write throws something other than a WriterException; and then
\* it does.  A WriterException and an invalid flatbuffer give ERR.
C6_EscapingExceptions ==
  [][ CallStep =>
        /\ last'.result = "THROW" =>
             \/ StatusValue(RunStatus') < StatusValue("IS_CONNECTED")
             \/ last'.writeDid = "OtherException"
        /\ RunStatus' \in {"CONFIGURATION_ERROR", "TOPIC_PARTITION_ERROR"}
             => last'.result = "THROW"
        /\ last'.writeDid = "OtherException" => last'.result = "THROW"
        /\ last'.writeDid = "WriterException" => last'.result = "ERR"
        /\ (last'.poll = "Message" /\ ~FlatbufferMessageIsValid(last'.msg))
             => last'.result = "ERR" ]_vars

C6_Witness ==
  /\ last.writeDid = "WriterException"
  /\ last.result = "ERR"

\* C9: when write returns a non-OK result or throws a WriterException the
\* call returns ERR, the writer module is neither closed nor reset and the
\* source stays registered; a message in the time window of a registered
\* source is passed to the write of its module.
C9_WriteErrorKeepsWriter ==
  [][ /\ (CallStep /\ last'.writeDid \in {"ERROR", "WriterException"})
         => ( /\ last'.result = "ERR"
              /\ sources' = sources
              /\ moduleLog' = moduleLog
              /\ \E h \in DOMAIN sources' :
                   sources'[h].WriterModule = last'.wrote )
      /\ ( /\ CallStep
           /\ last'.poll = "Message"
           /\ PassesToWindow(last'.msg, sources, Options)
           /\ ~stopTimeElapsed(last'.msg.ts, Options.StopTimestamp) )
         => ( /\ last'.wrote # NullModule
              /\ last'.wrote = <<last'.msg.tag, last'.msg.name>> ) ]_vars

C9_Witness ==
  /\ last.writeDid \in {"ERROR", "WriterException"}
  /\ last.result = "ERR"
  /\ \E h \in DOMAIN sources : sources[h].WriterModule = last.wrote

(***************************************************************************)
(* The NeXus structure.  The "children" of nexus_structure are kept in     *)
(* document order, every node with its nesting depth; the children of a    *)
(* node are the nodes that follow it one level deeper.  The name of the    *)
(* node at position i is i.  "fails" says what the HDF library refuses for *)
(* the node: creating the group, writing an attribute of it, or writing    *)
(* the dataset.                                                            *)
(***************************************************************************)
MaxTemplateNodes == 3

NoTarget == [up |-> 0, name |-> 0]

\* Link targets: "../" repeated up times, then the name of a node, or a
\* name that no node has (MaxTemplateNodes + 1).
LinkTargets == [up : 0..1, name : {1, MaxTemplateNodes + 1}]

NodeShapes ==
       [type : {"group"}, fails : {"none", "create", "attributes"},
        target : {NoTarget}]
  \cup [type : {"stream"}, fails : {"none"}, target : {NoTarget}]
  \cup [type : {"dataset"}, fails : {"none", "write"}, target : {NoTarget}]
  \cup [type : {"link"}, fails : {"none"}, target : LinkTargets]

AtDepth(shape, d) ==
  [type |-> shape.type, fails |-> shape.fails, target |-> shape.target,
   depth |-> d]

\* The nodes that can follow in document order: a sibling of the last node
\* or of one of its ancestors, or the first child of the last node when
\* that is a group.  A link steps up only where there is a group above it.
NextNodes(T) ==
  LET deepest == IF T = <<>> THEN 0
                 ELSE IF T[Len(T)].type = "group" THEN T[Len(T)].depth + 1
                 ELSE T[Len(T)].depth
  IN  {AtDepth(sh, d) : sh \in NodeShapes, d \in 0..deepest} \
        {n \in {AtDepth(sh, d) : sh \in NodeShapes, d \in 0..deepest} :
           n.type = "link" /\ n.target.up > n.depth}

RECURSIVE TemplatesUpTo(_)
TemplatesUpTo(n) ==
  IF n = 0 THEN {<<>>}
  ELSE LET Shorter == TemplatesUpTo(n - 1)
       IN  Shorter \cup
             UNION {{Append(T, nd) : nd \in NextNodes(T)} :
                      T \in {S \in Shorter : Len(S) = n - 1}}

Templates == TemplatesUpTo(MaxTemplateNodes)

\* Last position of the subtree of node i.
RECURSIVE SubtreeEnd(_, _, _)
SubtreeEnd(T, i, j) ==
  IF j < Len(T) /\ T[j + 1].depth > T[i].depth
    THEN SubtreeEnd(T, i, j + 1)
    ELSE j

\* The "children" array of node i, in order; i = 0 is nexus_structure.
RECURSIVE ChildrenFrom(_, _, _, _)
ChildrenFrom(T, d, j, last_) ==
  IF j > last_ THEN <<>>
  ELSE IF T[j].depth = d
    THEN <<j>> \o ChildrenFrom(T, d, j + 1, last_)
    ELSE ChildrenFrom(T, d, j + 1, last_)

Children(T, i) ==
  IF i = 0 THEN ChildrenFrom(T, 0, 1, Len(T))
  ELSE ChildrenFrom(T, T[i].depth + 1, i + 1, SubtreeEnd(T, i, i))

\* The positions of the nodes that enclose node i, outermost first.
Ancestors(T, i) ==
  {a \in 1..(i - 1) : T[a].depth < T[i].depth /\ SubtreeEnd(T, a, a) >= i}

RECURSIVE AscendingSeq(_)
AscendingSeq(S) ==
  IF S = {} THEN <<>>
  ELSE LET m == CHOOSE x \in S : \A y \in S : x <= y
       IN  <<m>> \o AscendingSeq(S \ {m})

EnclosingGroups(T, i) == AscendingSeq(Ancestors(T, i))

RECURSIVE createHDFStructures(_, _, _, _), walkChildren(_, _, _, _)

\* The try block of createHDFStructures for node i below the group Parent
\* of the file.  Gives the walk and whether an exception left the block.
createHDFStructures_try(T, i, Parent, W) ==
  LET Seen == [W EXCEPT !.Visited = Append(@, i)]
  IN
  CASE T[i].type = "group" ->
         IF T[i].fails = "create"
           THEN \* create_group throws, caught by the inner catch (...)
                [w |-> Seen, threw |-> FALSE]
           ELSE
             LET Made == [Seen EXCEPT !.Groups = @ \cup {Append(Parent, i)},
                                      !.Path = Append(@, i)]
             IN  IF T[i].fails = "attributes"
                   THEN \* writeAttributesIfPresent throws
                        [w |-> Made, threw |-> TRUE]
                   ELSE LET r == walkChildren(T, Children(T, i),
                                              Append(Parent, i), Made)
                        IN  IF r.threw THEN r
                            ELSE [w |-> [r.w EXCEPT !.Path =
                                            SubSeq(@, 1, Len(@) - 1)],
                                  threw |-> FALSE]
    [] T[i].type = "stream" ->
         [w |-> [Seen EXCEPT !.HDFStreamInfo =
                   Append(@, [hdf_path |-> Seen.Path, config |-> i])],
          threw |-> FALSE]
    [] T[i].type = "dataset" ->
         IF T[i].fails = "write"
           THEN [w |-> Seen, threw |-> TRUE]
           ELSE [w |-> [Seen EXCEPT !.Datasets = @ \cup {Append(Parent, i)}],
                 threw |-> FALSE]
    [] OTHER -> [w |-> Seen, threw |-> FALSE]

\* createHDFStructures without its catch of std::exception.
createHDFStructures_NoCatch(T, i, Parent, W) ==
  createHDFStructures_try(T, i, Parent, W)

\* createHDFStructures: the try block, and the catch that only logs.
createHDFStructures(T, i, Parent, W) ==
  [w |-> createHDFStructures_try(T, i, Parent, W).w, threw |-> FALSE]

\* for (auto &Child : Children) createHDFStructures(&Child, ...)
walkChildren(T, Kids, Parent, W) ==
  IF Kids = <<>> THEN [w |-> W, threw |-> FALSE]
  ELSE LET r == createHDFStructures(T, Head(Kids), Parent, W)
       IN  IF r.threw THEN r
           ELSE walkChildren(T, Tail(Kids), Parent, r.w)

\* HDFFile::init(NexusStructure, StreamHDFInfo): the loop over the children
\* of the root.
HDFFile_init_structure ==
  /\ walk.pc = "parsed"
  /\ \E r \in {walkChildren(Template, Children(Template, 0), <<>>, walk)} :
       walk' = [r.w EXCEPT !.pc = "initialised", !.threw = r.threw]
  /\ UNCHANGED <<notStructureVars, Template>>

\* The group of the file in which the node i of the template lies.
GroupOf(T, i) == EnclosingGroups(T, i)

\* The object the target of link i names: from the link's group, one group
\* up for every leading "../", then the name.
LinkTargetPath(T, i) ==
  LET G == GroupOf(T, i)
  IN  Append(SubSeq(G, 1, Len(G) - T[i].target.up), T[i].target.name)

RECURSIVE addLinks(_, _, _, _), addLinksToGroups(_, _, _, _)

\* The second loop of addLinks: the children of type link, in order.  A
\* target H5Oopen does not find is logged and skipped.
RECURSIVE addLinksOfGroup(_, _, _, _)
addLinksOfGroup(T, Kids, Group, W) ==
  IF Kids = <<>> THEN W
  ELSE LET k == Head(Kids)
           Found == LinkTargetPath(T, k) \in
                      W.Groups \cup W.Datasets \cup W.Links
           Linked == IF T[k].type = "link" /\ Found
                       THEN [W EXCEPT !.Links = @ \cup {Append(Group, k)}]
                       ELSE W
       IN  addLinksOfGroup(T, Tail(Kids), Group, Linked)

\* The first loop of addLinks: the children of type group, in order.
\* get_group throws when the file has no such group.
addLinksToGroups(T, Kids, Group, W) ==
  IF Kids = <<>> THEN [w |-> W, threw |-> FALSE]
  ELSE LET k == Head(Kids)
       IN  IF T[k].type # "group"
             THEN addLinksToGroups(T, Tail(Kids), Group, W)
           ELSE IF Append(Group, k) \notin W.Groups
             THEN [w |-> W, threw |-> TRUE]
           ELSE LET r == addLinks(T, k, Append(Group, k), W)
                IN  IF r.threw THEN r
                    ELSE addLinksToGroups(T, Tail(Kids), Group, r.w)

\* addLinks(Group, Json): the child groups first, then the links.
addLinks(T, i, Group, W) ==
  LET r == addLinksToGroups(T, Children(T, i), Group, W)
  IN  IF r.threw THEN r
      ELSE [w |-> addLinksOfGroup(T, Children(T, i), Group, r.w),
            threw |-> FALSE]

\* The link pass of HDFFile::finalize on the file the walk has made.
HDFFile_finalize_links ==
  /\ walk.pc = "initialised"
  /\ \E r \in {addLinks(Template, 0, <<>>, walk)} :
       walk' = [r.w EXCEPT !.pc = "finalized", !.finalizeThrew = r.threw]
  /\ UNCHANGED <<notStructureVars, Template>>

InitStructure ==
  /\ InitLegacyVars
  /\ InitSharedVars
  /\ InitBlobVars
  /\ InitTopicsVars
  /\ InitDemuxVars
  /\ InitProcVars
  /\ InitStreamerVars /\ Options.StartTimestamp = 0
  /\ Options.StopTimestamp = 0 /\ Options.AfterStopTime = 0
  /\ InitSourceVars /\ InitCallVars /\ InitHdfVars
  /\ Template \in Templates
  /\ walk = NewWalk
  /\ InitWriterVars /\ InitJobVars /\ InitMasterVars

NextStructure ==
  \/ HDFFile_init_structure
  \/ HDFFile_finalize_links

SpecStructure == InitStructure /\ [][NextStructure]_vars

StreamNodes == {i \in 1..Len(Template) : Template[i].type = "stream"}

EntriesOf(i) ==
  {e \in 1..Len(walk.HDFStreamInfo) : walk.HDFStreamInfo[e].config = i}

\* C11 as stated: after the walk every stream node has exactly one
\* StreamHDFInfo entry, whose hdf_path is the chain of the names of its
\* enclosing groups; no group or dataset was created for it; and every
\* entry belongs to a stream node.
C11_StreamPlaceholders ==
  walk.pc # "parsed" =>
    /\ \A i \in StreamNodes :
         /\ Cardinality(EntriesOf(i)) = 1
         /\ \A e \in EntriesOf(i) :
              walk.HDFStreamInfo[e].hdf_path = EnclosingGroups(Template, i)
         /\ \A f \in walk.Groups \cup walk.Datasets : f[Len(f)] # i
    /\ \A e \in 1..Len(walk.HDFStreamInfo) :
         walk.HDFStreamInfo[e].config \in StreamNodes

\* A node all of whose enclosing nodes were created without a failure.
Reachable(i) ==
  \A a \in Ancestors(Template, i) : Template[a].fails = "none"

\* C12: the walk never throws, and it visits every node that is not inside
\* the subtree of a failing node, once.
C12_WalkSurvivesNodeFailures ==
  walk.pc # "parsed" =>
    /\ ~walk.threw
    /\ \A i \in 1..Len(Template) :
         Reachable(i) =>
           Cardinality({v \in 1..Len(walk.Visited) : walk.Visited[v] = i}) = 1

\* A node failed and a later sibling of it was visited.
C12_Witness ==
  /\ walk.pc # "parsed"
  /\ \E i, j \in 1..Len(Template) :
       /\ i < j
       /\ Template[i].fails # "none"
       /\ Template[j].depth = Template[i].depth
       /\ Ancestors(Template, i) = Ancestors(Template, j)
       /\ \E v \in 1..Len(walk.Visited) : walk.Visited[v] = j

LinkNodes == {i \in 1..Len(Template) : Template[i].type = "link"}

\* The group of link i is in the file and the target of link i names a
\* group or a dataset of the file.
TargetExists(i) ==
  /\ GroupOf(Template, i) \in walk.Groups \cup {<<>>}
  /\ LinkTargetPath(Template, i) \in walk.Groups \cup walk.Datasets

\* C13 as stated: after finalize every link node whose target names an
\* existing object is a link in its group, whatever else the template
\* holds.
C13_ResolvableLinksCreated ==
  walk.pc = "finalized" =>
    \A i \in LinkNodes :
      TargetExists(i) => Append(GroupOf(Template, i), i) \in walk.Links

\* ---------------------------------------------------------------------------
\* Writer modules f142 and ep00: init_hdf, reopen and write on one group.
\* ---------------------------------------------------------------------------

MaxWrites == 4
MaxMessageTime == 2
MaxIndexEveryKb == 2
BytesPerKb == 1024

\* parse_config: index_every_bytes = index_every_kb * 1024.
IndexEveryBytes == {k * BytesPerKb : k \in 1..MaxIndexEveryKb}
\* The sizes write_impl reports for one message.
WrittenBytes == {BytesPerKb \div 2, BytesPerKb}
MessageTimes == 1..MaxMessageTime
\* How the dataset layer reports a dataset it can not create or open.
FailureModes == {"nullptr", "throws"}

f142CreateOrder == <<"value", "time", "cue_timestamp_zero", "cue_index">>
ep00CreateOrder == <<"connection_status_time", "connection_status">>

RECURSIVE CreateAll(_, _, _, _)
\* Creates the datasets Names[k..] in order.  A dataset that exists already
\* is not created: the call throws (and the rest is not attempted) or yields
\* a null handle.
CreateAll(G, Names, k, mode) ==
  IF k > Len(Names) THEN [group |-> G, handles |-> {}, threwAt |-> 0]
  ELSE IF Names[k] \in G.exists
       THEN IF mode = "throws"
            THEN [group |-> G, handles |-> {}, threwAt |-> k]
            ELSE CreateAll(G, Names, k + 1, mode)
       ELSE LET rest == CreateAll([G EXCEPT !.exists = @ \cup {Names[k]}],
                                  Names, k + 1, mode)
            IN  [rest EXCEPT !.handles = @ \cup {Names[k]}]

RECURSIVE OpenAll(_, _, _, _)
\* Opens the datasets Names[k..] in order; a missing one throws or yields a
\* null handle.
OpenAll(G, Names, k, mode) ==
  IF k > Len(Names) THEN [handles |-> {}, threwAt |-> 0]
  ELSE IF Names[k] \notin G.exists
       THEN IF mode = "throws"
            THEN [handles |-> {}, threwAt |-> k]
            ELSE OpenAll(G, Names, k + 1, mode)
       ELSE LET rest == OpenAll(G, Names, k + 1, mode)
            IN  [rest EXCEPT !.handles = @ \cup {Names[k]}]

\* The handles assigned before the statement that threw; the others keep
\* their value.
HandlesAfterThrow(M, Names, r) ==
  (M.handles \ {Names[j] : j \in 1..(r.threwAt - 1)}) \cup r.handles

\* The result of init_hdf after the catch block.
f142_init_hdf_CaughtResult == "OK"

f142_init_hdf(M, G, mode) ==
  LET r == CreateAll(G, f142CreateOrder, 1, mode) IN
  IF r.threwAt # 0
  THEN [module |-> [M EXCEPT !.impl = IF r.threwAt > 1 THEN TRUE ELSE @,
                             !.handles = HandlesAfterThrow(M, f142CreateOrder, r)],
        group |-> r.group,
        result |-> f142_init_hdf_CaughtResult]
  ELSE IF f142Datasets \ {"value"} \subseteq r.handles
       THEN [module |-> [M EXCEPT !.impl = TRUE, !.handles = r.handles],
             group |-> r.group, result |-> "OK"]
       ELSE [module |-> [M EXCEPT !.impl = FALSE,
                                  !.handles = r.handles \ {"value"}],
             group |-> r.group, result |-> "ERROR_IO"]

f142_reopen(M, G, mode) ==
  LET r == OpenAll(G, f142CreateOrder, 1, mode) IN
  IF r.threwAt # 0
  THEN [module |-> [M EXCEPT !.impl = IF r.threwAt > 1 THEN TRUE ELSE @,
                             !.handles = HandlesAfterThrow(M, f142CreateOrder, r)],
        group |-> G, result |-> "THROW"]
  ELSE IF f142Datasets \ {"value"} \subseteq r.handles
       THEN [module |-> [M EXCEPT !.impl = TRUE, !.handles = r.handles],
             group |-> G, result |-> "OK"]
       ELSE [module |-> [M EXCEPT !.impl = FALSE,
                                  !.handles = r.handles \ {"value"}],
             group |-> G, result |-> "ERROR_IO"]

Max(a, b) == IF a >= b THEN a ELSE b

\* ts_max = std::max(fbuf->timestamp(), ts_max)
NextTsMax_MessageTime(timestamp, ts_max) == timestamp
NextTsMax(timestamp, ts_max) == Max(timestamp, ts_max)

\* if (total_written_bytes > index_at_bytes + index_every_bytes)
CueIsDue(total_written_bytes, index_at_bytes, index_every_bytes) ==
  total_written_bytes > index_at_bytes + index_every_bytes

AppendTo(G, name, x) == [G EXCEPT !.data[name] = Append(@, x)]

\* write_impl of the value writer: appends the value and reports its size
\* and index, or fails and appends nothing.
write_impl(G, id, wret) ==
  IF wret.ok
  THEN [group |-> AppendTo(G, "value", id),
        written_bytes |-> wret.written_bytes,
        ix0 |-> Len(G.data["value"])]
  ELSE [group |-> G, written_bytes |-> 0, ix0 |-> 0]

f142_write(M, G, msg, wret) ==
  IF ~M.impl
  THEN [module |-> M, group |-> G, result |-> "ERROR_IO"]
  ELSE
    LET w       == write_impl(G, msg.id, wret)
        total   == M.total_written_bytes + w.written_bytes
        tsmax   == NextTsMax(msg.timestamp, M.ts_max)
        due     == CueIsDue(total, M.index_at_bytes, M.index_every_bytes)
        cued    == IF due
                   THEN AppendTo(AppendTo(w.group, "cue_timestamp_zero", tsmax),
                                 "cue_index", w.ix0)
                   ELSE w.group
    IN  [module |-> [M EXCEPT !.total_written_bytes = total,
                              !.ts_max = tsmax,
                              !.index_at_bytes = IF due THEN total ELSE @],
         group |-> AppendTo(cued, "time", msg.timestamp),
         result |-> "OK"]

ep00_init_hdf(M, G) ==
  LET r == CreateAll(G, ep00CreateOrder, 1, "throws") IN
  [module |-> M, group |-> r.group,
   result |-> IF r.threwAt # 0 THEN "ERROR" ELSE "OK"]

\* reopen without the catch block's return.
ep00_reopen_AlwaysOK(M, G) ==
  [module |-> [M EXCEPT !.handles =
                 OpenAll(G, ep00CreateOrder, 1, "nullptr").handles],
   group |-> G, result |-> "OK"]

ep00_reopen(M, G) ==
  LET r == OpenAll(G, ep00CreateOrder, 1, "throws") IN
  [module |-> [M EXCEPT !.handles =
                 IF r.threwAt # 0 THEN HandlesAfterThrow(M, ep00CreateOrder, r)
                 ELSE r.handles],
   group |-> G,
   result |-> IF r.threwAt # 0 THEN "ERROR" ELSE "OK"]

\* Appending through a dataset object that was never opened throws.
ep00_write(M, G, msg) ==
  IF "connection_status" \notin M.handles
  THEN [module |-> M, group |-> G, result |-> "THROW"]
  ELSE IF "connection_status_time" \notin M.handles
  THEN [module |-> M, group |-> AppendTo(G, "connection_status", msg.id),
        result |-> "THROW"]
  ELSE [module |-> M,
        group |-> AppendTo(AppendTo(G, "connection_status", msg.id),
                           "connection_status_time", msg.timestamp),
        result |-> "OK"]

ModuleDatasets == IF module.kind = "f142" THEN f142Datasets ELSE ep00Datasets

\* The group holds the datasets a successful init_hdf of the module makes.
GroupInitialised == ModuleDatasets \subseteq HDFGroup.exists

\* The module after one call: the outcome is stored together with what the
\* group was like at the call, and a message whose write returned normally
\* is remembered in write order.
Called(op, out, msg) ==
  [out.module EXCEPT
     !.op = op, !.result = out.result,
     !.onInitialised = GroupInitialised,
     !.groupChanged = (out.group # HDFGroup),
     !.calls = IF op = "write" THEN @ + 1 ELSE @,
     !.written = IF op = "write" /\ out.result = "OK"
                 THEN Append(@, msg) ELSE @]

NoMessage == [id |-> 0, timestamp |-> 0]

HDFWriterModule_init_hdf ==
  /\ \E mode \in FailureModes :
       LET out == IF module.kind = "f142"
                  THEN f142_init_hdf(module, HDFGroup, mode)
                  ELSE ep00_init_hdf(module, HDFGroup)
       IN  /\ module' = Called("init_hdf", out, NoMessage)
           /\ HDFGroup' = out.group
  /\ UNCHANGED notWriterVars

HDFWriterModule_reopen ==
  /\ \E mode \in FailureModes :
       LET out == IF module.kind = "f142"
                  THEN f142_reopen(module, HDFGroup, mode)
                  ELSE ep00_reopen(module, HDFGroup)
       IN  /\ module' = Called("reopen", out, NoMessage)
           /\ HDFGroup' = out.group
  /\ UNCHANGED notWriterVars

write_impl_Returns ==
  [ok : {TRUE}, written_bytes : WrittenBytes] \cup
  [ok : {FALSE}, written_bytes : {0}]

HDFWriterModule_write ==
  /\ module.calls < MaxWrites
  /\ module.impl => f142Datasets \subseteq module.handles
  /\ \E timestamp \in MessageTimes, wret \in write_impl_Returns :
       LET msg == [id |-> module.calls + 1, timestamp |-> timestamp]
           out == IF module.kind = "f142"
                  THEN f142_write(module, HDFGroup, msg, wret)
                  ELSE ep00_write(module, HDFGroup, msg)
       IN  /\ module' = Called("write", out, msg)
           /\ HDFGroup' = out.group
  /\ UNCHANGED notWriterVars

InitWriterModule ==
  /\ InitLegacyVars
  /\ InitSharedVars
  /\ InitBlobVars
  /\ InitTopicsVars
  /\ InitDemuxVars
  /\ InitProcVars
  /\ InitStreamerVars /\ Options.StartTimestamp = 0
  /\ Options.StopTimestamp = 0 /\ Options.AfterStopTime = 0
  /\ InitSourceVars /\ InitCallVars /\ InitHdfVars
  /\ InitStructureVars /\ InitJobVars /\ InitMasterVars
  /\ HDFGroup = EmptyGroup
  /\ module \in {NewModule("f142", e) : e \in IndexEveryBytes}
                \cup {NewModule("ep00", 0)}

NextWriterModule ==
  \/ HDFWriterModule_init_hdf
  \/ HDFWriterModule_reopen
  \/ HDFWriterModule_write

SpecWriterModule == InitWriterModule /\ [][NextWriterModule]_vars

\* A step is a write of the f142 module that got past the impl check.
f142WriteStep ==
  /\ module.kind = "f142" /\ module'.op = "write"
  /\ module'.calls = module.calls + 1
  /\ module'.result = "OK"

CueAppended ==
  Len(HDFGroup'.data["cue_timestamp_zero"]) =
    Len(HDFGroup.data["cue_timestamp_zero"]) + 1

\* C14: a write of the f142 module appends a cue entry exactly when, after
\* the message's bytes were added, total_written_bytes minus the total at
\* the last cue is at least index_every_bytes.
C14_CueExactlyWhenDue ==
  [][f142WriteStep =>
       (CueAppended <=>
          module'.total_written_bytes - module.index_at_bytes
            >= module.index_every_bytes)]_vars

NonDecreasing(q) == \A i, j \in 1..Len(q) : i <= j => q[i] <= q[j]

Last(q) == q[Len(q)]

\* C15: the values appended to cue_timestamp_zero are non-decreasing, for
\* every sequence of messages, also when message timestamps go backwards.
C15_CueTimestampsNonDecreasing ==
  NonDecreasing(HDFGroup.data["cue_timestamp_zero"])

\* The last write appended the second or a later cue entry, for a message
\* whose timestamp is older than one written before it.
C15_Witness ==
  /\ module.kind = "f142" /\ module.op = "write" /\ module.result = "OK"
  /\ Len(HDFGroup.data["cue_index"]) >= 2
  /\ Len(HDFGroup.data["value"]) >= 1
  /\ Last(HDFGroup.data["cue_index"]) = Len(HDFGroup.data["value"]) - 1
  /\ Last(HDFGroup.data["time"]) < Last(HDFGroup.data["cue_timestamp_zero"])

\* The primary per-message datasets of the module: values and timestamps.
PrimaryValues == IF module.kind = "f142" THEN "value" ELSE "connection_status"
PrimaryTimes ==
  IF module.kind = "f142" THEN "time" ELSE "connection_status_time"

\* C16: after N messages have been written through the module, the value
\* dataset and the timestamp dataset each hold exactly these N messages'
\* elements in write order, also after the group is reopened.
C16_PrimaryDatasetsHoldWrittenMessages ==
  /\ HDFGroup.data[PrimaryValues] =
       [i \in 1..Len(module.written) |-> module.written[i].id]
  /\ HDFGroup.data[PrimaryTimes] =
       [i \in 1..Len(module.written) |-> module.written[i].timestamp]

\* C17: init_hdf on a group that the module has already initialised returns
\* an error, not OK, and leaves the datasets of the first init unchanged
\* (f142 and ep00).
C17_SecondInitIsAnError ==
  (module.op = "init_hdf" /\ module.onInitialised)
    => (module.result # "OK" /\ ~module.groupChanged)

\* C18: reopen returns OK exactly when the module's datasets already exist
\* in the group: an error on a group that was never initialised, OK after a
\* successful init_hdf.
C18_ReopenOKIffInitialised ==
  module.op = "reopen" => (module.result = "OK" <=> module.onInitialised)

\* reopen succeeded on a group that init_hdf has filled.
C18_Witness ==
  /\ module.kind = "ep00" /\ module.op = "reopen"
  /\ module.onInitialised /\ module.result = "OK"

\* ---------------------------------------------------------------------------
\* The partition consumers of one job: each runs on its own thread and
\* hands its messages to the Source of its stream; all Sources write to
\* the job's one file.
\* ---------------------------------------------------------------------------

NumConsumerThreads == 2
MaxMessagesPerThread == 2

ConsumerThreads == 1..NumConsumerThreads

\* A thread is inside one of these calls, or between calls ("polling"),
\* or its Source has been closed ("closed").
WriterModuleCalls == {"write", "SWMRFlush", "flush", "close"}

NewThread == [pc |-> "polling", WriterModule |-> TRUE, processed |-> 0]

AtThread(t, th) ==
  /\ job' = [job EXCEPT !.thread[t] = th]
  /\ UNCHANGED notJobVars

\* Source::process_message up to the call of WriterModule->write.
Thread_process_message(t) ==
  /\ job.thread[t].pc = "polling"
  /\ job.thread[t].processed < MaxMessagesPerThread
  /\ \E SchemaMatches \in BOOLEAN :
       LET th == [job.thread[t] EXCEPT !.processed = @ + 1] IN
       IF SchemaMatches /\ th.WriterModule
       THEN AtThread(t, [th EXCEPT !.pc = "write"])
       ELSE AtThread(t, th)

\* WriterModule->write returns or throws; SWMRFlush follows a write that
\* returned when the file is written in SWMR mode.
Thread_write_returns(t) ==
  /\ job.thread[t].pc = "write"
  /\ \E threw \in BOOLEAN :
       AtThread(t, [job.thread[t] EXCEPT !.pc =
                      IF ~threw /\ job.HDFFileForSWMR
                      THEN "SWMRFlush" ELSE "polling"])

Thread_SWMRFlush_returns(t) ==
  /\ job.thread[t].pc = "SWMRFlush"
  /\ AtThread(t, [job.thread[t] EXCEPT !.pc = "polling"])

\* Source::close_writer_module up to the call of WriterModule->flush.
Thread_close_writer_module(t) ==
  /\ job.thread[t].pc = "polling"
  /\ AtThread(t, [job.thread[t] EXCEPT !.pc =
                    IF job.thread[t].WriterModule THEN "flush" ELSE "closed"])

Thread_flush_returns(t) ==
  /\ job.thread[t].pc = "flush"
  /\ AtThread(t, [job.thread[t] EXCEPT !.pc = "close"])

\* WriterModule->close returns; WriterModule.reset().
Thread_close_returns(t) ==
  /\ job.thread[t].pc = "close"
  /\ AtThread(t, [job.thread[t] EXCEPT !.pc = "closed",
                                       !.WriterModule = FALSE])

InitJob ==
  /\ InitLegacyVars
  /\ InitSharedVars
  /\ InitBlobVars
  /\ InitTopicsVars
  /\ InitDemuxVars
  /\ InitProcVars
  /\ InitStreamerVars /\ Options.StartTimestamp = 0
  /\ Options.StopTimestamp = 0 /\ Options.AfterStopTime = 0
  /\ InitSourceVars /\ InitCallVars /\ InitHdfVars
  /\ InitStructureVars /\ InitWriterVars /\ InitMasterVars
  /\ \E swmr \in BOOLEAN :
       job = [HDFFileForSWMR |-> swmr,
              thread |-> [t \in ConsumerThreads |-> NewThread]]

NextJob ==
  \E t \in ConsumerThreads :
    \/ Thread_process_message(t)
    \/ Thread_write_returns(t)
    \/ Thread_SWMRFlush_returns(t)
    \/ Thread_close_writer_module(t)
    \/ Thread_flush_returns(t)
    \/ Thread_close_returns(t)

SpecJob == InitJob /\ [][NextJob]_vars

InWriterModule == {t \in ConsumerThreads : job.thread[t].pc \in WriterModuleCalls}

MaxJobs == 3

\* What a command polled in one iteration asks for.
Commands == {"none", "new", "stop", "exit"}

\* A job as the master sees it: stop() was called on it, its stop flag, and
\* whether its threads have ended (status().isRemovable()).
NewStreamMaster(id) ==
  [id |-> id, stopCalls |-> 0, Stop |-> FALSE, finished |-> FALSE]

\* StreamMaster::stop: sets the job's stop flag and returns; the job's
\* threads end at their next poll.
StreamMaster_stop(sm) == [sm EXCEPT !.stopCalls = 1, !.Stop = TRUE]

\* stream_masters.erase(remove_if(... status().isRemovable() ...))
\* erase from the first removable job to the end of the table.
EraseRemovable_FromFirst(sms) ==
  LET Removable == {k \in 1..Len(sms) : sms[k].finished} IN
  IF Removable = {} THEN sms
  ELSE SubSeq(sms, 1, (CHOOSE k \in Removable : \A l \in Removable : k <= l) - 1)

EraseRemovable(sms) ==
  LET Keep(sm) == ~sm.finished IN SelectSeq(sms, Keep)

\* The command handler's effect on the master.
HandleCommand(M, cmd, j) ==
  CASE cmd = "new" /\ M.created < MaxJobs ->
         [M EXCEPT !.stream_masters = Append(@, NewStreamMaster(M.created + 1)),
                   !.created = @ + 1]
    [] cmd = "stop" /\ j \in 1..Len(M.stream_masters) ->
         [M EXCEPT !.stream_masters[j] = StreamMaster_stop(@)]
    [] cmd = "exit" -> [M EXCEPT !.do_run = FALSE]
    [] OTHER -> M

ServiceId == "kafka-to-nexus--host--pid"

\* getFileWriterTask().stats() of a job.
StreamMasterInfo(sm) == [stop |-> sm.Stop, finished |-> sm.finished]

\* Master::statistics without the test of status_producer.
statistics_NoProducerCheck(M) ==
  [type |-> "filewriter_status_master", service_id |-> ServiceId,
   files |-> [id \in {M.stream_masters[k].id : k \in 1..Len(M.stream_masters)} |->
                LET k == CHOOSE k \in 1..Len(M.stream_masters) :
                           /\ M.stream_masters[k].id = id
                           /\ \A l \in (k + 1)..Len(M.stream_masters) :
                                M.stream_masters[l].id # id
                IN  StreamMasterInfo(M.stream_masters[k])]]

\* Master::statistics: the message it produces, NoStatus when it returns
\* without producing.  Status["files"][job_id] is assigned once per stream
\* master, a later assignment to the same key replaces the earlier one.
statistics(M) ==
  IF ~M.status_producer THEN NoStatus
  ELSE [type |-> "filewriter_status_master", service_id |-> ServiceId,
        files |-> [id \in {M.stream_masters[k].id : k \in 1..Len(M.stream_masters)} |->
                     LET k == CHOOSE k \in 1..Len(M.stream_masters) :
                                /\ M.stream_masters[k].id = id
                                /\ \A l \in (k + 1)..Len(M.stream_masters) :
                                     M.stream_masters[l].id # id
                     IN  StreamMasterInfo(M.stream_masters[k])]]

\* One pass of while (do_run) { poll; handle; statistics; erase removable }.
Master_run_loop ==
  /\ master.pc = "loop" /\ master.do_run
  /\ \E cmd \in Commands, j \in 1..MaxJobs, IntervalElapsed \in BOOLEAN :
       LET M == HandleCommand(master, cmd, j) IN
       master' = [M EXCEPT
         !.published = IF M.do_kafka_status /\ IntervalElapsed
                       THEN statistics(M) ELSE NoStatus,
         !.elapsed = IntervalElapsed,
         !.jobsAtStatus =
            {M.stream_masters[k].id : k \in 1..Len(M.stream_masters)},
         !.stream_masters = EraseRemovable(@),
         !.op = "loop"]
  /\ UNCHANGED notMasterVars

\* Master::stop, from the signal handler or a test, on another thread.
Master_stop ==
  /\ master.do_run
  /\ master' = [master EXCEPT !.do_run = FALSE, !.op = "stop"]
  /\ UNCHANGED notMasterVars

\* The loop is left: stop() on every stream master, then run returns and
\* OnScopeExit sets HasExitedRunLoop.
Master_run_exit ==
  /\ master.pc = "loop" /\ ~master.do_run
  /\ master' = [master EXCEPT
       !.stream_masters = [k \in 1..Len(@) |-> StreamMaster_stop(@[k])],
       !.pc = "returned", !.HasExitedRunLoop = TRUE, !.op = "exit"]
  /\ UNCHANGED notMasterVars

\* A job's threads end: its stop time was reached or its stop flag is set.
StreamMaster_finishes ==
  /\ \E k \in 1..Len(master.stream_masters) :
       /\ ~master.stream_masters[k].finished
       /\ master' = [master EXCEPT !.stream_masters[k].finished = TRUE,
                                   !.op = "finish"]
  /\ UNCHANGED notMasterVars

InitMaster ==
  /\ InitLegacyVars
  /\ InitSharedVars
  /\ InitBlobVars
  /\ InitTopicsVars
  /\ InitDemuxVars
  /\ InitProcVars
  /\ InitStreamerVars /\ Options.StartTimestamp = 0
  /\ Options.StopTimestamp = 0 /\ Options.AfterStopTime = 0
  /\ InitSourceVars /\ InitCallVars /\ InitHdfVars
  /\ InitStructureVars /\ InitWriterVars /\ InitJobVars
  /\ \E status \in BOOLEAN, ProducerCreated \in BOOLEAN :
       master = [NewMaster EXCEPT
                   !.do_kafka_status = status,
                   !.status_producer = status /\ ProducerCreated]

NextMaster ==
  \/ Master_run_loop
  \/ Master_stop
  \/ Master_run_exit
  \/ StreamMaster_finishes

SpecMaster == InitMaster /\ [][NextMaster]_vars

ActiveJobs == {master.stream_masters[k] : k \in 1..Len(master.stream_masters)}

\* C20: when Master::run has left its loop and returned, stop() has been
\* called on every job still in the active table and each of these jobs
\* has finished.
C20_RunReturnsAfterJobsFinished ==
  master.HasExitedRunLoop =>
    \A sm \in ActiveJobs : sm.stopCalls > 0 /\ sm.finished

JobIds(sms) == [k \in 1..Len(sms) |-> sms[k].id]

PositionOf(ids, id) == CHOOSE k \in 1..Len(ids) : ids[k] = id

InSeq(ids, id) == \E k \in 1..Len(ids) : ids[k] = id

\* One pass of the master loop has run.
MasterTick ==
  master.pc = "loop" /\ master.do_run /\ master'.op = "loop"

\* C21: after each pass of the master loop no removable job is left in the
\* active-jobs table; a job that was not removable is still in the table;
\* the jobs that remain are in the order they had before.
C21_ReapingRemovesExactlyRemovableJobs ==
  [][MasterTick =>
       LET old == master.stream_masters
           new == master'.stream_masters
       IN  /\ \A k \in 1..Len(new) : ~new[k].finished
           /\ \A k \in 1..Len(old) :
                ~old[k].finished => InSeq(JobIds(new), old[k].id)
           /\ \A i, j \in 1..Len(new) :
                (i < j /\ InSeq(JobIds(old), new[i].id)
                       /\ InSeq(JobIds(old), new[j].id))
                  => PositionOf(JobIds(old), new[i].id)
                       < PositionOf(JobIds(old), new[j].id)]_vars

\* The pass removed the second of three jobs and kept the first and third.
C21_Witness ==
  /\ master.op = "loop"
  /\ JobIds(master.stream_masters) = <<1, 3>>

\* The job's stop time lies strictly in the past.
StopTimeInPast == Options.StopTimestamp > 0 /\ clock > Options.StopTimestamp

\* C22: a job whose stop time is strictly in the past writes no message,
\* whatever its start time and whatever the topic holds.
C22_PastStopTimeWritesNothing ==
  [][(StopTimeInPast /\ clock' = clock /\ last'.op = "pollAndProcess")
       => last'.branch # "Written"]_vars

\* ---------------------------------------------------------------------------
\* main(): command line, --commands-json, the thread running Master::run,
\* the wait for a signal or for the end of the run loop, and the exit code.
\* ---------------------------------------------------------------------------

\* How the process ended: the value main returned, or what ended it.
ExitCodes == {"0", "1", "2", "CLI_ERROR", "SIGABRT", "SIGNAL"}

Exited(P, code) == [P EXCEPT !.pc = "exited", !.exit = code]

\* MainOpt::parseJsonCommands: 1 when the file does not parse, else 0.
parseJsonCommands(CommandsJson) == IF CommandsJson = "unparsable" THEN 1 ELSE 0

\* CLI11_PARSE: on a command line error main returns the library's code.
Main_CLI11_PARSE ==
  /\ proc.pc = "start"
  /\ proc' = IF proc.cli = "error" THEN Exited(proc, "CLI_ERROR")
             ELSE [proc EXCEPT !.pc = "parsed"]
  /\ UNCHANGED notProcVars

\* if (not CommandsJsonFilename.empty()) Options->parseJsonCommands();
\* the value it returns is not used.
Main_parseJsonCommands ==
  /\ proc.pc = "parsed"
  /\ proc' = [proc EXCEPT
       !.pc = "commands",
       !.parsed = IF proc.CommandsJson = "none" THEN "none"
                  ELSE IF parseJsonCommands(proc.CommandsJson) = 1
                       THEN "failed" ELSE "ok"]
  /\ UNCHANGED notProcVars

\* --list_modules prints and returns 0; otherwise the signal handlers are
\* installed and the thread of Master::run is started.
Main_start_master ==
  /\ proc.pc = "commands"
  /\ proc' = IF proc.ListWriterModules THEN Exited(proc, "0")
             ELSE [proc EXCEPT !.pc = "waiting", !.MasterThread = "running"]
  /\ UNCHANGED notProcVars

\* One pass of while (not Master.runLoopExited()) { sleep; if (GotSignal) ... }
Main_wait ==
  /\ proc.pc = "waiting"
  /\ proc' = IF proc.HasExitedRunLoop THEN [proc EXCEPT !.pc = "joining"]
             ELSE IF proc.GotSignal
                  THEN [proc EXCEPT !.do_run = FALSE, !.GotSignal = FALSE,
                                    !.stopped = TRUE, !.pc = "joining"]
                  ELSE proc
  /\ UNCHANGED notProcVars

\* SIGINT or SIGTERM: the handler sets GotSignal; without a handler the
\* signal ends the process.
Signal ==
  /\ proc.pc \notin {"start", "exited"}
  /\ ~proc.GotSignal
  /\ proc' = IF proc.use_signal_handler /\ proc.pc \in {"waiting", "joining"}
             THEN [proc EXCEPT !.GotSignal = TRUE]
             ELSE Exited(proc, "SIGNAL")
  /\ UNCHANGED notProcVars

\* while (do_run)
WhileCondition_True(P) == TRUE

WhileCondition(P) == P.do_run

\* The loop test of Master::run passes: the next pass begins.
MasterThread_loop_test ==
  /\ proc.pc # "exited" /\ proc.MasterThread = "running"
  /\ proc.loop = "test" /\ WhileCondition(proc)
  /\ proc.pollsAfterStop < MaxPollsAfterStop
  /\ proc' = [proc EXCEPT !.loop = "pass"]
  /\ UNCHANGED notProcVars

\* One pass of the loop: the bounded poll of the command listener and the
\* command it gave, which may be an exit command (Master::stop).
MasterThread_loop_pass ==
  /\ proc.pc # "exited" /\ proc.MasterThread = "running"
  /\ proc.loop = "pass"
  /\ \E ExitCommand \in BOOLEAN :
       proc' = [proc EXCEPT
                  !.loop = "test",
                  !.pollsAfterStop = IF proc.stopped THEN @ + 1 ELSE @,
                  !.do_run = @ /\ ~ExitCommand,
                  !.stopped = @ \/ ExitCommand]
  /\ UNCHANGED notProcVars

\* Master::run returns: the loop test found do_run cleared, by
\* Master::stop or by an exit command; OnScopeExit sets HasExitedRunLoop.
MasterThread_run_returns ==
  /\ proc.pc # "exited" /\ proc.MasterThread = "running"
  /\ proc.loop = "test" /\ ~WhileCondition(proc)
  /\ proc' = [proc EXCEPT !.MasterThread = "returned",
                          !.HasExitedRunLoop = TRUE]
  /\ UNCHANGED notProcVars

\* Master::run throws: unwinding to the handlers of the thread function
\* destroys SetExitFlag, which sets HasExitedRunLoop; the thread function
\* logs and rethrows, which ends the process through std::terminate.
MasterThread_run_throws ==
  /\ proc.pc # "exited" /\ proc.MasterThread = "running"
  /\ proc' = Exited([proc EXCEPT !.MasterThread = "threw",
                                 !.HasExitedRunLoop = TRUE], "SIGABRT")
  /\ UNCHANGED notProcVars

\* MasterThread.join(); Logger->flush(); return 0;
Main_join ==
  /\ proc.pc = "joining" /\ proc.MasterThread = "returned"
  /\ proc' = Exited(proc, "0")
  /\ UNCHANGED notProcVars

InitMain ==
  /\ InitLegacyVars
  /\ InitSharedVars
  /\ InitBlobVars
  /\ InitTopicsVars
  /\ InitDemuxVars
  /\ InitStreamerVars /\ Options.StartTimestamp = 0
  /\ Options.StopTimestamp = 0 /\ Options.AfterStopTime = 0
  /\ InitSourceVars /\ InitCallVars /\ InitHdfVars
  /\ InitStructureVars /\ InitWriterVars /\ InitJobVars /\ InitMasterVars
  /\ \E cli \in {"ok", "error"}, json \in {"none", "valid", "unparsable"},
        list \in BOOLEAN, handler \in BOOLEAN :
       proc = [NoProc EXCEPT !.cli = cli, !.CommandsJson = json,
                             !.ListWriterModules = list,
                             !.use_signal_handler = handler]

NextMain ==
  \/ Main_CLI11_PARSE
  \/ Main_parseJsonCommands
  \/ Main_start_master
  \/ Main_wait
  \/ Signal
  \/ MasterThread_loop_test
  \/ MasterThread_loop_pass
  \/ MasterThread_run_returns
  \/ MasterThread_run_throws
  \/ Main_join

SpecMain == InitMain /\ [][NextMain]_vars

ConfigurationError == proc.cli = "ok" /\ proc.CommandsJson = "unparsable"

\* C23: the exit code is 0 after a clean shutdown, 1 on a configuration
\* error at startup (the master loop is then not started), 2 on a fatal
\* runtime error in the master loop (a process that an unhandled signal
\* ended has no exit code of its own).
C23_ExitCodes ==
  /\ ConfigurationError => proc.MasterThread = "none"
  /\ (proc.pc = "exited" /\ proc.exit # "SIGNAL") =>
       /\ ConfigurationError => proc.exit = "1"
       /\ proc.MasterThread = "threw" => proc.exit = "2"
       /\ proc.exit = "0" =>
            ~ConfigurationError /\ proc.MasterThread # "threw"

\* ---------------------------------------------------------------------------
\* DemuxTopic::add_source and its map of sources.
\* ---------------------------------------------------------------------------

DemuxSchemaIds == {"f142", "ep00", "NDAr"}

\* The key the claim speaks of: (source name, schema id).
SourceKeys == SourceNames \X DemuxSchemaIds

\* std::unordered_map::insert: the pair is stored unless the key is taken.
MapInsert(map, k, v) ==
  IF k \in DOMAIN map THEN map
  ELSE [x \in DOMAIN map \cup {k} |-> IF x = k THEN v ELSE map[x]]

\* auto k = source.sourcename(); _sources_map.insert({k, move(source)})
add_source(map, source) == MapInsert(map, source.SourceName, source)

KeyOf(source) == <<source.SourceName, source.SchemaID>>

DemuxTopic_add_source ==
  /\ \E key \in SourceKeys :
       LET source == NewSource(key[1], key[2], <<key[2], key[1]>>)
           map    == add_source(demux._sources_map, source)
       IN  demux' = [_sources_map |-> map,
                     added |-> demux.added \cup {key},
                     destroyed |->
                       IF map = demux._sources_map
                       THEN demux.destroyed \cup {key} ELSE demux.destroyed]
  /\ UNCHANGED notDemuxVars

InitDemux ==
  /\ InitLegacyVars
  /\ InitSharedVars
  /\ InitBlobVars
  /\ InitTopicsVars
  /\ InitStreamerVars /\ Options.StartTimestamp = 0
  /\ Options.StopTimestamp = 0 /\ Options.AfterStopTime = 0
  /\ InitSourceVars /\ InitCallVars /\ InitHdfVars
  /\ InitStructureVars /\ InitWriterVars /\ InitJobVars /\ InitMasterVars
  /\ InitProcVars
  /\ demux = NoDemux

NextDemux == DemuxTopic_add_source

SpecDemux == InitDemux /\ [][NextDemux]_vars

RegisteredWithKey(key) ==
  {k \in DOMAIN demux._sources_map : KeyOf(demux._sources_map[k]) = key}

\* C24: every (source name, schema id) that add_source was given has
\* exactly one registered source: a source with another key is neither
\* replaced nor dropped, and a second source with the same key adds nothing.
C24_OneSourcePerKey ==
  \A key \in demux.added : Cardinality(RegisteredWithKey(key)) = 1

\* C25: a status message published in a pass of the master loop has the
\* type "filewriter_status_master", the configured service_id and exactly
\* one files entry per job that is in the active-jobs table at that
\* moment, keyed by job id; one is published only when status publishing
\* is enabled, the interval has elapsed and a status producer exists.
C25_StatusMessage ==
  (master.op = "loop" /\ master.published # NoStatus) =>
    /\ master.published.type = "filewriter_status_master"
    /\ master.published.service_id = ServiceId
    /\ DOMAIN master.published.files = master.jobsAtStatus
    /\ master.do_kafka_status /\ master.elapsed /\ master.status_producer

\* A status message listing two jobs, one of them removable and reaped in
\* the same pass.
C25_Witness ==
  /\ master.op = "loop" /\ master.published # NoStatus
  /\ Cardinality(DOMAIN master.published.files) = 2
  /\ Len(master.stream_masters) = 1

(***************************************************************************)
(* Streamer::Streamer starts initTopics asynchronously; initTopics         *)
(* subscribes the consumer and checks that the broker knows the topic.     *)
(***************************************************************************)
BrokerNames == {"", "broker:9092"}
TopicNames == {"", "t1", "t2"}

ConsumerCall(call, topic, ts) == [call |-> call, topic |-> topic, ts |-> ts]

\* The calls initTopics makes on the consumer, in order.  A throwing
\* subscription call leaves the try block, so topicPresent is not reached.
initTopics_ConsumerCalls_NoLeeway(TopicName, Start, Before, AddTopicThrows) ==
  LET add == IF Start # 0
               THEN ConsumerCall("addTopicAtTimestamp", TopicName, Start)
               ELSE ConsumerCall("addTopic", TopicName, 0)
  IN  IF AddTopicThrows THEN <<add>>
      ELSE <<add, ConsumerCall("topicPresent", TopicName, 0)>>

initTopics_ConsumerCalls(TopicName, Start, Before, AddTopicThrows) ==
  LET add == IF Start # 0
               THEN ConsumerCall("addTopicAtTimestamp", TopicName,
                                 Start - Before)
               ELSE ConsumerCall("addTopic", TopicName, 0)
  IN  IF AddTopicThrows THEN <<add>>
      ELSE <<add, ConsumerCall("topicPresent", TopicName, 0)>>

\* KafkaW::Consumer: addTopic "adds topic to consumer at latest offset",
\* addTopicAtTimestamp consumes "from a specified timestamp".
Consumer_offset(call) ==
  IF call.call = "addTopic" THEN <<"latest">>
  ELSE IF call.call = "addTopicAtTimestamp" THEN <<"timestamp", call.ts>>
  ELSE <<"none">>

\* The constructor: throws on an empty broker or topic name, otherwise
\* launches initTopics with the options it was given.
Streamer_Streamer ==
  /\ topics.pc = "none"
  /\ \E Broker \in BrokerNames, TopicName \in TopicNames,
        Start \in 0..MaxTimeMs, Before \in 0..MaxBeforeStartMs :
       topics' = [topics EXCEPT
                    !.pc = IF TopicName = "" \/ Broker = ""
                             THEN "threw" ELSE "async",
                    !.Broker = Broker, !.TopicName = TopicName,
                    !.StartTimestamp = Start, !.BeforeStartTime = Before]
  /\ UNCHANGED notTopicsVars

\* initTopics from its first line to its return.  PresentOutcome is what
\* topicPresent does: it answers, or it throws inside the try block.
initTopics_returns ==
  /\ topics.pc = "async"
  /\ \E AddTopicThrows \in BOOLEAN,
        PresentOutcome \in {"present", "absent", "throws"} :
       LET calls == initTopics_ConsumerCalls(topics.TopicName,
                      topics.StartTimestamp, topics.BeforeStartTime,
                      AddTopicThrows)
       IN  topics' = [topics EXCEPT
                        !.pc = "returned",
                        !.calls = calls,
                        !.offset = IF AddTopicThrows THEN <<"none">>
                                   ELSE Consumer_offset(calls[1]),
                        !.result =
                          initTopics(AddTopicThrows
                                       \/ PresentOutcome = "throws",
                                     PresentOutcome = "present")]
  /\ UNCHANGED notTopicsVars

InitTopics ==
  /\ InitLegacyVars
  /\ InitSharedVars
  /\ InitBlobVars
  /\ InitStreamerVars /\ Options.StartTimestamp = 0
  /\ Options.StopTimestamp = 0 /\ Options.AfterStopTime = 0
  /\ InitSourceVars /\ InitCallVars /\ InitHdfVars
  /\ InitStructureVars /\ InitWriterVars /\ InitJobVars /\ InitMasterVars
  /\ InitProcVars /\ InitDemuxVars
  /\ topics = NoTopics

NextTopics == Streamer_Streamer \/ initTopics_returns

SpecTopics == InitTopics /\ [][NextTopics]_vars

SubscriptionCalls ==
  {i \in DOMAIN topics.calls :
     topics.calls[i].call \in {"addTopic", "addTopicAtTimestamp"}}

PresenceChecks ==
  {i \in DOMAIN topics.calls : topics.calls[i].call = "topicPresent"}

\* C26: when initTopics has returned it has made exactly one subscription
\* call on the consumer: addTopic (latest offset) when the start time is 0,
\* otherwise addTopicAtTimestamp for start time minus before-start leeway;
\* every topic-presence check comes after that call, and a subscription
\* that did not throw left the consumer at that offset.
C26_OneSubscriptionBeforePresenceCheck ==
  topics.pc = "returned" =>
    /\ Cardinality(SubscriptionCalls) = 1
    /\ \A i \in SubscriptionCalls, j \in PresenceChecks : i < j
    /\ \A i \in SubscriptionCalls :
         /\ topics.calls[i].topic = topics.TopicName
         /\ IF topics.StartTimestamp = 0
              THEN topics.calls[i].call = "addTopic"
              ELSE /\ topics.calls[i].call = "addTopicAtTimestamp"
                   /\ topics.calls[i].ts =
                        topics.StartTimestamp - topics.BeforeStartTime
    /\ topics.offset \in
         {<<"none">>,
          IF topics.StartTimestamp = 0 THEN <<"latest">>
          ELSE <<"timestamp",
                 topics.StartTimestamp - topics.BeforeStartTime>>}

\* A start time with a non-zero leeway: subscribed by timestamp, then the
\* presence check, and the consumer handed over.
C26_Witness ==
  /\ topics.pc = "returned"
  /\ topics.StartTimestamp = 2 /\ topics.BeforeStartTime = 1
  /\ topics.offset = <<"timestamp", 1>>
  /\ Len(topics.calls) = 2
  /\ topics.result.status = "WRITING"

(***************************************************************************)
(* A failed initialisation and the calls that follow it.                   *)
(***************************************************************************)
InitialisationFailed ==
  /\ ConsumerInitialised.state \in {"ready", "invalid"}
  /\ ConsumerInitialised.status
       \in {"TOPIC_PARTITION_ERROR", "CONFIGURATION_ERROR"}

InitialisationSucceeded ==
  /\ ConsumerInitialised.state \in {"ready", "invalid"}
  /\ ConsumerInitialised.status = "WRITING"

\* initTopics returns an error status exactly with no consumer, and after
\* such a return the streamer is never in the writing state and never
\* polls a consumer.
FailedInitKeepsErrorStatus ==
  /\ ConsumerInitialised.state \in {"ready", "invalid"} =>
       \/ InitialisationFailed /\ ConsumerInitialised.consumer = "null"
       \/ InitialisationSucceeded /\ ConsumerInitialised.consumer = "set"
  /\ InitialisationFailed =>
       /\ RunStatus # "WRITING"
       /\ Consumer = "null"
       /\ ~last.polled

\* C27: when the topic is missing or the subscription throws, initTopics
\* returns TOPIC_PARTITION_ERROR or CONFIGURATION_ERROR and no consumer;
\* from then on the streamer is never in the writing state and no call of
\* pollAndProcess reaches Consumer->poll().
C27_FailedInitNeverReachesPoll ==
  /\ FailedInitKeepsErrorStatus
  /\ InitialisationFailed => last.branch # "NullConsumer"

(***************************************************************************)
(* Polls that end without a message for a writer.                          *)
(***************************************************************************)
NonFatalBranches ==
  {"PollError", "BadPayload", "MissingTimestamp", "UnknownSource"}

\* C28: a pollAndProcess that ends as a transport error, an invalid
\* flatbuffer, a message with timestamp 0 or a message of an unregistered
\* source invokes no writer module, leaves the registered sources (and
\* their writer modules) as they were and returns ERR or OK, never STOP or
\* an exception; the consumer and a pollable run status are kept, and the
\* next call of pollAndProcess polls the consumer again.
C28_NonFatalOutcomes ==
  [][ /\ (CallStep /\ last'.branch \in NonFatalBranches) =>
           /\ last'.wrote = NullModule /\ last'.writeDid = "none"
           /\ moduleLog' = moduleLog
           /\ sources' = sources /\ removed' = removed
           /\ last'.result = IF last'.branch = "UnknownSource"
                               THEN "OK" ELSE "ERR"
           /\ Consumer' = "set" /\ ~crashed'
           /\ StatusValue(RunStatus') >= StatusValue("IS_CONNECTED")
      /\ ( /\ last.op = "pollAndProcess"
           /\ last.branch \in NonFatalBranches
           /\ last'.op = "pollAndProcess" ) => last'.polled ]_vars

\* A message with timestamp 0 of a registered source was polled and
\* dropped while sources are registered.
C28_Witness ==
  /\ last.op = "pollAndProcess" /\ last.branch = "MissingTimestamp"
  /\ last.polled /\ last.result = "ERR"
  /\ DOMAIN sources # {}
  /\ getSourceHash(last.msg) \in DOMAIN sources

(***************************************************************************)
(* Template values: populateBlob flattens a JSON value into the buffer     *)
(* that is written to a dataset or an attribute.                           *)
(***************************************************************************)
MAX_DIMENSIONS_OF_ARRAY == 10
\* 4 * 1024 * 1024
MAX_ALLOWED_STRING_LENGTH == 4194304
\* (size_t)(-1) and (hsize_t)(-1)
H5T_VARIABLE == 0 - 1
H5S_UNLIMITED == 0 - 1

LeafKinds == {"integer", "float", "string"}

JLeaf(kind, id) == [arr |-> FALSE, items |-> <<>>, leaf |-> kind, id |-> id]
JArray(items) == [arr |-> TRUE, items |-> items, leaf |-> "none", id |-> 0]

RECURSIVE Nest(_, _)
Nest(v, d) == IF d = 0 THEN v ELSE JArray(<<Nest(v, d - 1)>>)

\* The leaves of a JSON value in document order.
RECURSIVE Flatten(_)
RECURSIVE FlattenItems(_)
FlattenItems(items) ==
  IF items = <<>> THEN <<>>
  ELSE Flatten(Head(items)) \o FlattenItems(Tail(items))
Flatten(v) == IF v.arr THEN FlattenItems(v.items) ELSE <<v.id>>

\* The largest number of arrays around a leaf of the value (0: no leaf is
\* inside an array).
RECURSIVE LeafDepth(_)
RECURSIVE LeafDepthItems(_)
LeafDepthItems(items) ==
  IF items = <<>> THEN 0 - 1
  ELSE LET h == LeafDepth(Head(items))
           t == LeafDepthItems(Tail(items))
       IN  IF h >= t THEN h ELSE t
LeafDepth(v) ==
  IF ~v.arr THEN 0
  ELSE LET d == LeafDepthItems(v.items)
       IN  IF d < 0 THEN 0 - 1 ELSE d + 1

BlobHandlers == {"Numeric", "String", "FixedString"}

Threw == [threw |-> TRUE, Buffer |-> <<>>]

\* DataHandler::append.  NumericItemHandler: Value.get<DataType>() throws
\* for a string.  StringItemHandler takes anything.  FixedStringItemHandler
\* throws for a length of MAX_ALLOWED_STRING_LENGTH or more, and its
\* conversion to std::string throws for a value that is no string.
append(Handler, Buffer, Value, ItemLength) ==
  IF Handler = "Numeric"
    THEN IF Value.leaf = "string" THEN Threw
         ELSE [threw |-> FALSE, Buffer |-> Append(Buffer, Value.id)]
  ELSE IF Handler = "String"
    THEN [threw |-> FALSE, Buffer |-> Append(Buffer, Value.id)]
  ELSE IF ItemLength >= MAX_ALLOWED_STRING_LENGTH THEN Threw
  ELSE IF Value.leaf # "string" THEN Threw
  ELSE [threw |-> FALSE, Buffer |-> Append(Buffer, Value.id)]

\* Buffer.size(): the fixed-size handler appends ItemLength chars per item.
BufferSize(Handler, Buffer, ItemLength) ==
  IF Handler = "FixedString" THEN Len(Buffer) * ItemLength ELSE Len(Buffer)

\* The while loop of populateBlob over the stack of StackItems (the top is
\* the last element); Index counts the items of the array already taken.
RECURSIVE populateBlob_loop(_, _, _, _)
populateBlob_loop(Handler, Stack, Buffer, ItemLength) ==
  IF Stack = <<>> THEN [threw |-> FALSE, Buffer |-> Buffer]
  ELSE IF Len(Stack) > MAX_DIMENSIONS_OF_ARRAY
    THEN \* break
         [threw |-> FALSE, Buffer |-> Buffer]
  ELSE
    LET top == Stack[Len(Stack)]
    IN  IF top.Index >= Len(top.Value.items)
          THEN populateBlob_loop(Handler, SubSeq(Stack, 1, Len(Stack) - 1),
                                 Buffer, ItemLength)
        ELSE
          LET Value == top.Value.items[top.Index + 1]
              inc   == [Stack EXCEPT ![Len(Stack)].Index = @ + 1]
          IN  IF Value.arr
                THEN populateBlob_loop(
                       Handler, Append(inc, [Value |-> Value, Index |-> 0]),
                       Buffer, ItemLength)
              ELSE LET a == append(Handler, Buffer, Value, ItemLength)
                   IN  IF a.threw THEN a
                       ELSE populateBlob_loop(Handler, inc, a.Buffer,
                                              ItemLength)

populateBlob(Handler, ValueJson, GoalSize, ItemLength) ==
  LET r == IF ValueJson.arr
             THEN populateBlob_loop(Handler,
                                    <<[Value |-> ValueJson, Index |-> 0]>>,
                                    <<>>, ItemLength)
             ELSE append(Handler, <<>>, ValueJson, ItemLength)
  IN  IF r.threw THEN r
      ELSE IF GoalSize # 0
              /\ BufferSize(Handler, r.Buffer, ItemLength) # GoalSize
        THEN Threw
      ELSE r

(***************************************************************************)
(* writeDataset: a "dataset" node of the template.                         *)
(***************************************************************************)
NumericTypes ==
  {"uint8", "uint16", "uint32", "uint64", "int8", "int16", "int32", "int64",
   "float", "double"}

\* What a template declares as type: the known names and one unknown.
DeclaredTypes == NumericTypes \cup {"string", "bogus"}

RECURSIVE DataspaceSize(_)
DataspaceSize(Sizes) ==
  IF Sizes = <<>> THEN 1 ELSE Head(Sizes) * DataspaceSize(Tail(Sizes))

DatasetResult(outcome, created, dtype, ElementSize, data) ==
  [outcome |-> outcome, created |-> created, dtype |-> dtype,
   ElementSize |-> ElementSize, data |-> data]

\* writeNumericDataset, writeStringDataset, writeFixedSizeStringDataset:
\* the dataset is created first, then the blob is populated and written.
writeTypedDataset(Handler, DataType, GoalSize, ElementSize, Values) ==
  LET b == populateBlob(Handler, Values, GoalSize,
                        IF Handler = "FixedString" THEN ElementSize ELSE 0)
  IN  IF b.threw
        THEN DatasetResult("threw", TRUE, DataType, ElementSize, <<>>)
        ELSE DatasetResult("written", TRUE, DataType, ElementSize, b.Buffer)

\* One if per type name; a name that matches none writes nothing.
writeGenericDataset(DataType, Sizes, ElementSize, Values) ==
  IF DataType \in NumericTypes
    THEN writeTypedDataset("Numeric", DataType, DataspaceSize(Sizes),
                           H5T_VARIABLE, Values)
  ELSE IF DataType = "string"
    THEN IF ElementSize = H5T_VARIABLE
           THEN writeTypedDataset("String", DataType, DataspaceSize(Sizes),
                                  H5T_VARIABLE, Values)
           ELSE writeTypedDataset("FixedString", DataType, 0, ElementSize,
                                  Values)
  ELSE DatasetResult("nothing", FALSE, "none", 0, <<>>)

writeDataset(node) ==
  LET Returned == DatasetResult("returned", FALSE, "none", 0, <<>>)
      DataType0 == IF node.typeKey # "none" THEN node.type ELSE "int64"
      ElementSize == IF node.string_size > 0
                        /\ node.string_size # H5T_VARIABLE
                       THEN node.string_size ELSE H5T_VARIABLE
      DataType == IF ~node.values.arr /\ node.values.leaf = "float"
                    THEN "double" ELSE DataType0
      Sizes == IF node.size # <<>> /\ Head(node.size) = H5S_UNLIMITED
                 THEN <<IF node.values.arr THEN Len(node.values.items)
                                           ELSE 1>> \o Tail(node.size)
                 ELSE node.size
      g == writeGenericDataset(DataType, Sizes, ElementSize, node.values)
  IN  IF node.name = "" THEN Returned
      ELSE IF node.space \notin {"absent", "simple"} THEN Returned
      ELSE IF node.values = NoJson THEN Returned
      ELSE IF g.created THEN g
      ELSE \* Parent.nodes[Name] finds no dataset
           DatasetResult("threw", FALSE, "none", 0, <<>>)

DeepValue(kind) ==
  JArray(<<JLeaf(kind, 1),
           Nest(JArray(<<JLeaf(kind, 2)>>), MAX_DIMENSIONS_OF_ARRAY)>>)

DatasetValues ==
  {JLeaf(k, 1) : k \in LeafKinds}
    \cup {JArray(<<JLeaf(k, 1), JLeaf(k, 2)>>) : k \in LeafKinds}
    \cup {DeepValue("integer")}

TemplateDatasets ==
  {n \in [name : {"", "d"}, space : {"absent", "simple", "scalar"},
          typeKey : {"none", "type", "dtype"},
          type : DeclaredTypes \cup {"none"},
          size : {<<>>, <<2>>, <<H5S_UNLIMITED>>},
          string_size : {0, 4, MAX_ALLOWED_STRING_LENGTH},
          values : DatasetValues \cup {NoJson}] :
     (n.typeKey = "none") <=> (n.type = "none")}

BlobValues ==
  {JLeaf(k, 1) : k \in LeafKinds}
    \cup {JArray(<<>>)}
    \cup {JArray(<<JLeaf(k, 1), JLeaf(k, 2)>>) : k \in LeafKinds}
    \cup {Nest(JArray(<<JLeaf(k, 1)>>), d) :
            k \in LeafKinds,
            d \in (MAX_DIMENSIONS_OF_ARRAY - 2)
                    ..(MAX_DIMENSIONS_OF_ARRAY - 1 + MaxExtraDepth)}
    \cup {JArray(<<JLeaf(k, 1), Nest(JArray(<<JLeaf(k, 2)>>), d),
                   JLeaf(k, 3)>>) :
            k \in LeafKinds,
            d \in (MAX_DIMENSIONS_OF_ARRAY - 2)
                    ..(MAX_DIMENSIONS_OF_ARRAY - 1 + MaxExtraDepth)}

ItemLengths ==
  {0, 4, MAX_ALLOWED_STRING_LENGTH - 1, MAX_ALLOWED_STRING_LENGTH}

\* The calls share no state, so a behaviour follows one of them.
HDFFile_writeDataset ==
  /\ blob.op = "none"
  /\ \E node \in TemplateDatasets :
       blob' = [NoBlob EXCEPT !.op = "writeDataset", !.node = node,
                              !.result = writeDataset(node)]
  /\ UNCHANGED notBlobVars

Call_populateBlob ==
  /\ blob.op = "none"
  /\ \E Handler \in BlobHandlers, ValueJson \in BlobValues,
        GoalSize \in 0..MaxGoalSize, ItemLength \in ItemLengths :
       blob' = [NoBlob EXCEPT
                  !.op = "populateBlob",
                  !.call = [Handler |-> Handler, ValueJson |-> ValueJson,
                            GoalSize |-> GoalSize,
                            ItemLength |-> ItemLength],
                  !.returned = populateBlob(Handler, ValueJson, GoalSize,
                                            ItemLength)]
  /\ UNCHANGED notBlobVars

InitBlob ==
  /\ InitLegacyVars
  /\ InitSharedVars
  /\ InitStreamerVars /\ Options.StartTimestamp = 0
  /\ Options.StopTimestamp = 0 /\ Options.AfterStopTime = 0
  /\ InitSourceVars /\ InitCallVars /\ InitHdfVars
  /\ InitStructureVars /\ InitWriterVars /\ InitJobVars /\ InitMasterVars
  /\ InitProcVars /\ InitDemuxVars /\ InitTopicsVars
  /\ blob = NoBlob

NextBlob == HDFFile_writeDataset \/ Call_populateBlob

SpecBlob == InitBlob /\ [][NextBlob]_vars

IsFloating_leaf(v) == ~v.arr /\ v.leaf = "float"

DeclaresType(node) == node.typeKey # "none"

\* A floating-point number, or an array of such numbers.
IsFloating(v) ==
  IF v.arr
    THEN v.items # <<>> /\ \A i \in DOMAIN v.items : IsFloating_leaf(v.items[i])
    ELSE IsFloating_leaf(v)

\* C29: a dataset that writeDataset creates has the type its template
\* declares; with no declared type it is int64, or double, and double only
\* for floating-point values.
C29_DeclaredTypeIsWritten ==
  (blob.op = "writeDataset" /\ blob.result.created) =>
    IF DeclaresType(blob.node)
      THEN blob.result.dtype = blob.node.type
      ELSE /\ blob.result.dtype \in {"int64", "double"}
           /\ blob.result.dtype = "double" => IsFloating(blob.node.values)

\* C30: populateBlob throws for a value with a leaf inside more than
\* MAX_DIMENSIONS_OF_ARRAY arrays, and for a fixed-size string item of
\* MAX_ALLOWED_STRING_LENGTH bytes or more, whatever the handler; what it
\* returns without throwing is every leaf of the value.
C30_TooDeepOrTooLongThrows ==
  blob.op = "populateBlob" =>
    /\ LeafDepth(blob.call.ValueJson) > MAX_DIMENSIONS_OF_ARRAY
         => blob.returned.threw
    /\ ( /\ blob.call.Handler = "FixedString"
         /\ blob.call.ItemLength >= MAX_ALLOWED_STRING_LENGTH )
         => blob.returned.threw
    /\ ~blob.returned.threw
         => blob.returned.Buffer = Flatten(blob.call.ValueJson)

(***************************************************************************)
(* When pollAndProcess returns STOP.                                       *)
(***************************************************************************)
\* The call polled the consumer (it did not end before Consumer->poll()).
PolledStep == CallStep /\ last'.polled

\* (a) nothing to consume and the wall clock is past stop time plus leeway
StopByWallClock ==
  /\ last'.poll \in {"Empty", "EndOfPartition", "TimedOut"}
  /\ clock > Options.StopTimestamp + Options.AfterStopTime
  /\ sources' = sources

\* (b) a message beyond the stop time whose source is registered, that is,
\* whose source hash is a key of the demultiplexer, and that entry removed
StopBySourceRemoved ==
  /\ last'.poll = "Message"
  /\ getSourceHash(last'.msg) \in DOMAIN sources
  /\ ToSigned(last'.msg.ts) > ToNanoseconds(Options.StopTimestamp)
  /\ DOMAIN sources' = DOMAIN sources \ {getSourceHash(last'.msg)}
  /\ \A h \in DOMAIN sources' : sources'[h] = sources[h]

\* C31: a pollAndProcess that polled returns STOP only with a stop time
\* set and either (a) an Empty, EndOfPartition or TimedOut poll with the
\* wall clock beyond stop time plus leeway, or (b) a message of a
\* registered source with a timestamp beyond the stop time whose source
\* was removed; without a stop time it never returns STOP and removes no
\* source.
C31_StopOnlyByStopTime ==
  [][ /\ (PolledStep /\ last'.result = "STOP") =>
           /\ Options.StopTimestamp > 0
           /\ StopByWallClock \/ StopBySourceRemoved
      /\ (PolledStep /\ Options.StopTimestamp = 0) =>
           /\ last'.result # "STOP"
           /\ DOMAIN sources' = DOMAIN sources ]_vars

\* A message beyond the stop time removed its source while another source
\* stays registered.
C31_Witness ==
  /\ last.op = "pollAndProcess" /\ last.result = "STOP"
  /\ last.branch = "SourceCompleted"
  /\ Options.StopTimestamp > 0
  /\ last.removedHash \notin DOMAIN sources
  /\ DOMAIN sources # {}

(***************************************************************************)
(* The path stack of createHDFStructures.                                  *)
(***************************************************************************)
\* Path after createHDFStructures for node i, called with the chain of the
\* groups that enclose the node on the stack.
PathAfterCall(i) ==
  LET Before == EnclosingGroups(Template, i)
  IN  createHDFStructures(Template, i, Before,
                          [NewWalk EXCEPT !.Path = Before]).w.Path

\* C32: createHDFStructures leaves Path as it found it, for every node of
\* the template and whatever fails inside the call; so after the walk over
\* the children of the root Path is empty again.
C32_PathStackBalanced ==
  walk.pc # "parsed" =>
    /\ walk.Path = <<>>
    /\ \A i \in 1..Len(Template) :
         PathAfterCall(i) = EnclosingGroups(Template, i)

(***************************************************************************)
(* pollAndProcess and the pending initialisation.                          *)
(***************************************************************************)
\* C33: while initTopics is pending a pollAndProcess returns OK, takes
\* nothing and does not poll; the result of initTopics is taken once, by
\* the call that finds it ready, and is never taken again; and a call
\* polls the consumer only when the result has been taken and it was the
\* status WRITING with a consumer, which the taking call stores before it
\* polls.
C33_NoPollBeforeInitialised ==
  [][ /\ (CallStep /\ ConsumerInitialised.state = "pending") =>
           /\ last'.result = "OK" /\ last'.branch = "NotReady"
           /\ ~last'.polled
           /\ Consumer' = "null"
           /\ ConsumerInitialised' = ConsumerInitialised
      /\ (ConsumerInitialised'.state = "invalid"
            /\ ConsumerInitialised.state # "invalid") =>
           /\ ConsumerInitialised.state = "ready"
           /\ last'.op = "pollAndProcess"
           /\ RunStatus' = ConsumerInitialised.status
           /\ Consumer' = ConsumerInitialised.consumer
      /\ ConsumerInitialised.state = "invalid" =>
           ConsumerInitialised' = ConsumerInitialised
      /\ (CallStep /\ last'.polled) =>
           /\ ConsumerInitialised'.state = "invalid"
           /\ ConsumerInitialised'.status = "WRITING"
           /\ Consumer' = "set"
           /\ ConsumerInitialised.state = "ready" => RunStatus' = "WRITING"
    ]_vars

\* A call made after close() while the initialisation is still pending.
C33_Witness ==
  /\ last.op = "pollAndProcess" /\ last.branch = "NotReady"
  /\ ConsumerInitialised.state = "pending"
  /\ RunStatus = "HAS_FINISHED"

(***************************************************************************)
(* Shutdown: Master::stop, the end of Master::run, and main's join.        *)
(***************************************************************************)
\* C34: after Master::stop the run loop makes at most one further pass
\* (one poll of the command listener) and is then left; when Master::run
\* has ended, by return or by exception, HasExitedRunLoop is set; and main
\* returns, once it has started the master thread, only when that thread
\* has returned and was joined.
C34_StopEndsRunAndMainJoins ==
  /\ proc.pollsAfterStop <= 1
  /\ proc.MasterThread = "returned" => proc.stopped /\ ~proc.do_run
  /\ proc.MasterThread \in {"returned", "threw"} => proc.HasExitedRunLoop
  /\ (proc.pc = "exited" /\ proc.exit = "0" /\ ~proc.ListWriterModules) =>
       proc.MasterThread = "returned"

\* main stopped the master after a signal, the loop made its one further
\* pass, run returned and main joined the thread and returned.
C34_Witness ==
  /\ proc.pc = "exited" /\ proc.exit = "0"
  /\ proc.MasterThread = "returned"
  /\ proc.pollsAfterStop = 1
  /\ proc.HasExitedRunLoop

(***************************************************************************)
(* The f142 module's handles and the alignment of its two main datasets.   *)
(***************************************************************************)
\* The value writer and the three dataset handles that write uses besides
\* the value dataset.
f142HandlesSet ==
  /\ module.impl
  /\ {"time", "cue_timestamp_zero", "cue_index"} \subseteq module.handles

\* The last call was init_hdf or reopen and a dataset could not be made:
\* init_hdf found the datasets existing, reopen found them missing.
f142SetupFailed ==
  \/ module.op = "init_hdf" /\ module.onInitialised
  \/ module.op = "reopen" /\ ~module.onInitialised

\* C35: when init_hdf or reopen of the f142 module returned OK, the value
\* writer and the time, cue_timestamp_zero and cue_index handles are all
\* set; and when making any of them failed, also by an exception, the
\* result is not OK.
C35_OKMeansHandlesSet ==
  (module.kind = "f142" /\ module.op \in {"init_hdf", "reopen"}) =>
    /\ module.result = "OK" => f142HandlesSet
    /\ f142SetupFailed => module.result # "OK"

\* The same for reopen alone.
C35_ReopenOKMeansHandlesSet ==
  (module.kind = "f142" /\ module.op = "reopen") =>
    /\ module.result = "OK" => f142HandlesSet
    /\ f142SetupFailed => module.result # "OK"

\* C36: after any sequence of writes of the f142 module the value dataset
\* and the time dataset hold the same number of elements: a write appends
\* to both or, when the value append failed, to neither and is then not
\* reported as OK.
C36_ValueAndTimeAligned ==
  module.kind = "f142" =>
    Len(HDFGroup.data["value"]) = Len(HDFGroup.data["time"])

(***************************************************************************)
(* Several Streamers, each on its own thread, in pollAndProcess on the     *)
(* DemuxTopic of their topic.  The lookup in sources() and the call of     *)
(* removeSource are two calls on the shared map with nothing held between. *)
(***************************************************************************)
Streamers == 1..NumConsumerThreads

InPoll == [pc |-> "poll", msg |-> NoMsg, branch |-> "none"]

\* The message passes every test before the stop-time test and the
\* stop-time test sends it to removeSource.
ReachesStopTimeBranch(Srcs, Opts, Poll, Raw) ==
  /\ Poll = "Message"
  /\ FlatbufferMessageIsValid(Raw)
  /\ ~MessageHasNoTimestamp(Raw)
  /\ ~SourceIsUnknown(Raw, Srcs)
  /\ ~BeforeStartTimestamp(Raw, Opts)
  /\ stopTimeElapsed(Raw.ts, Opts.StopTimestamp)

\* pollAndProcess from Consumer->poll() up to the stop-time test; a call
\* that does not reach removeSource ends here.
Streamer_poll(s) ==
  /\ streamers[s].pc = "poll"
  /\ \E poll \in PollStatuses :
     \E raw \in IF poll = "Message" THEN RawMessages ELSE {NoMsg} :
       IF ReachesStopTimeBranch(sources, Options, poll, raw)
       THEN /\ streamers' = [streamers EXCEPT ![s] =
                 [pc |-> "found", msg |-> raw, branch |-> "none"]]
            /\ UNCHANGED sourceVars
       ELSE \E o \in PossibleOutcomes(sources, moduleLog, Options, clock,
                                      poll, raw) :
              /\ sources' = o.sources
              /\ moduleLog' = o.log
              /\ removed' = removed
              /\ streamers' = [streamers EXCEPT ![s] =
                   [InPoll EXCEPT !.branch = o.branch]]
  /\ UNCHANGED <<streamerVars, callVars, hdfVars, subsystemVarsButShared>>

\* MessageProcessor.removeSource(Message->getSourceHash()) and the return
\* that follows it.
Streamer_removeSource(s) ==
  /\ streamers[s].pc = "found"
  /\ LET h == getSourceHash(streamers[s].msg)
         r == removeSource(sources, h)
     IN  IF r.ok
         THEN /\ sources' = r.sources
              /\ moduleLog' = DestroySource(sources[h], moduleLog)
              /\ removed' = removed \cup {h}
              /\ streamers' = [streamers EXCEPT ![s] =
                   [InPoll EXCEPT !.branch = "SourceCompleted"]]
         ELSE /\ UNCHANGED sourceVars
              /\ streamers' = [streamers EXCEPT ![s] =
                   [InPoll EXCEPT !.branch = "CantRemove"]]
  /\ UNCHANGED <<streamerVars, callVars, hdfVars, subsystemVarsButShared>>

InitShared ==
  /\ InitLegacyVars
  /\ InitStreamerVars /\ Options.StartTimestamp = 0
  /\ Options.AfterStopTime = 0
  /\ InitSourceVars /\ InitCallVars /\ InitHdfVars
  /\ InitStructureVars /\ InitWriterVars /\ InitJobVars /\ InitMasterVars
  /\ InitProcVars /\ InitDemuxVars /\ InitTopicsVars /\ InitBlobVars
  /\ streamers = [s \in Streamers |-> InPoll]

NextShared ==
  \E s \in Streamers : Streamer_poll(s) \/ Streamer_removeSource(s)

SpecShared == InitShared /\ [][NextShared]_vars

C37_OneStreamerAlwaysRemoves == last.branch # "CantRemove"

(***************************************************************************)
(* The handle the destructor of HDFFile leaves behind.                     *)
(***************************************************************************)
\* C38: the destructor of HDFFile lets no exception escape and ends with
\* the file handle closed: close() is carried out after finalize() also
\* when finalize() failed.
C38_DestructorClosesFile ==
  hdf.pc = "destroyed" =>
    /\ last.op = "~HDFFile" /\ last.result \in {"OK", "Caught"}
    /\ H5File = "invalid"

\* The same when finalize() did not throw.
C38_ClosedAfterFinalizeSucceeded ==
  (hdf.pc = "destroyed" /\ last.result = "OK") => H5File = "invalid"

(***************************************************************************)
(* Streamer.cxx: the legacy Streamer steps back through its partition to   *)
(* find the first timestamp of the sources (get_initial_time).             *)
(***************************************************************************)
\* RdKafka::Topic::OFFSET_INVALID
OFFSET_INVALID == 0 - 1001

Variants == {"DemuxTopic", "function"}
ConsumeOutcomes == {"message", "late", "error"}

\* The source a message of the partition names.
SourceOfOffset(o) == IF o % 2 = 0 THEN "A" ELSE "B"

Lowest(S) == CHOOSE o \in S : \A p \in S : o <= p
Highest(S) == CHOOSE o \in S : \A p \in S : o >= p

\* The watermarks query_watermark_offsets gives for a partition that holds
\* messages at the offsets Content.
LowWatermark(Content) == IF Content = {} THEN 0 ELSE Lowest(Content)
HighWatermark(Content) == IF Content = {} THEN 0 ELSE Highest(Content) + 1

\* Streamer::Streamer: the consumer is started at the given offset.
NewLegacyStreamer(variant, Content, nsources, offset) ==
  [pc |-> "calling", variant |-> variant, content |-> Content,
   nsources |-> nsources,
   _begin_offset |-> LowWatermark(Content),
   _offset |-> offset, _last_visited_offset |-> offset,
   consumerPos |-> offset, position |-> offset,
   seek |-> "none", depth |-> 0, msize |-> 0]

\* Streamer::jump_back_impl: seek amount messages back, not before the
\* begin offset; _offset takes the position also when the seek failed.
jump_back_impl(L, amount, seekOK) ==
  LET back     == L._offset - amount
      reach    == back <= L._begin_offset
      position == IF reach THEN L._begin_offset ELSE back
  IN  [legacy |-> [L EXCEPT !._last_visited_offset = L._offset,
                            !.position = position,
                            !.seek = IF seekOK THEN "ok" ELSE "failed",
                            !.consumerPos = IF seekOK THEN position ELSE @,
                            !._offset = position],
       reach_beginning |-> reach /\ seekOK]

\* _consumer->consume: the first message at or after the consumer's
\* position, or an error (a timeout, or the end of the partition).
consume(L, out) ==
  LET ahead == {o \in L.content : o >= L.consumerPos} IN
  IF out = "error" THEN [err |-> TRUE, offset |-> OFFSET_INVALID]
  ELSE IF ahead = {} THEN [err |-> TRUE, offset |-> L.consumerPos]
  ELSE [err |-> FALSE, offset |-> Lowest(ahead)]

RECURSIVE scan_timestamps(_, _, _, _)
\* Streamer::scan_timestamps, from its k-th pass through the do-while loop
\* on: m is ts_list.  The variant with a DemuxTopic stores the offset of
\* each message in _offset; the variant with a function leaves _offset
\* alone and returns at a message later than the given time.
scan_timestamps(L, m, Outs, k) ==
  LET msg == consume(L, Outs[k]) IN
  IF msg.err THEN [legacy |-> L, m |-> m, pos |-> msg.offset]
  ELSE
    LET L1 == [L EXCEPT !.consumerPos = msg.offset + 1,
                        !._offset = IF L.variant = "DemuxTopic"
                                    THEN msg.offset ELSE @]
        m1 == m \cup {SourceOfOffset(msg.offset)}
        at == IF L.variant = "DemuxTopic" THEN L1._offset ELSE msg.offset
    IN  IF L.variant = "function" /\ Outs[k] = "late"
        THEN [legacy |-> L1, m |-> m, pos |-> msg.offset]
        ELSE IF at # L._last_visited_offset /\ Cardinality(m1) # 1
                /\ k < Len(Outs)
        THEN scan_timestamps(L1, m1, Outs, k + 1)
        ELSE [legacy |-> L1, m |-> m1, pos |-> msg.offset]

\* One call of Streamer::get_initial_time: it returns, or ends in a call of
\* itself.
get_initial_time(L, seekOK, Outs) ==
  LET J    == jump_back_impl(L, step_back_amount, seekOK).legacy
      S    == scan_timestamps(J, {}, Outs, 1)
      goal == IF L.variant = "DemuxTopic" THEN L.nsources ELSE 1
      done == \/ Cardinality(S.m) = goal
              \/ S.legacy._offset = S.legacy._begin_offset
  IN  [S.legacy EXCEPT !._offset = IF done THEN S.pos ELSE @,
                       !.pc = IF done THEN "returned" ELSE "calling",
                       !.msize = Cardinality(S.m),
                       !.depth = @ + 1]

Streamer_get_initial_time ==
  /\ legacy.pc = "calling"
  /\ legacy.depth < MaxDepth
  /\ \E seekOK \in BOOLEAN, Outs \in [1..MaxConsumes -> ConsumeOutcomes] :
       legacy' = get_initial_time(legacy, seekOK, Outs)
  /\ UNCHANGED <<coreVars, subsystemVarsButLegacy>>

InitLegacy ==
  /\ InitStreamerVars /\ Options.StartTimestamp = 0
  /\ Options.StopTimestamp = 0 /\ Options.AfterStopTime = 0
  /\ InitSourceVars /\ InitCallVars /\ InitHdfVars
  /\ InitStructureVars /\ InitWriterVars /\ InitJobVars /\ InitMasterVars
  /\ InitProcVars /\ InitDemuxVars /\ InitTopicsVars /\ InitBlobVars
  /\ InitSharedVars
  /\ \E variant \in Variants, Content \in SUBSET (0..MaxOffset),
        nsources \in 1..MaxSources :
       \E offset \in LowWatermark(Content)..HighWatermark(Content) :
         legacy = NewLegacyStreamer(variant, Content, nsources, offset)

NextLegacy == Streamer_get_initial_time

SpecLegacy == InitLegacy /\ [][NextLegacy]_vars

\* The step is one call of get_initial_time.
InitialTimeStep == legacy'.depth = legacy.depth + 1

\* The call ended in a further call and _offset is not lower than before.
NotLowered == legacy'.pc = "calling" /\ legacy'._offset >= legacy._offset

\* C39: get_initial_time of the legacy Streamer terminates: jump_back_impl
\* never seeks below the begin offset, and every call that ends in a
\* further call has strictly lowered _offset, whatever the partition holds
\* and whatever seek and consume did.
C39_EveryCallLowersOffset ==
  [][ InitialTimeStep =>
        /\ legacy'.position >= legacy._begin_offset
        /\ ~NotLowered ]_vars

\* The same for the variant of get_initial_time that is given a function.
C39_FunctionVariantLowersOffset ==
  [][ (InitialTimeStep /\ legacy.variant = "function") =>
        /\ legacy'.position >= legacy._begin_offset
        /\ ~NotLowered ]_vars

\* The same when the seek succeeded and the partition holds a message at
\* the position sought.
C39_LowersWhenMessageAtPosition ==
  [][ (InitialTimeStep /\ legacy'.seek = "ok"
       /\ legacy'.position \in legacy.content) =>
        /\ legacy'.position >= legacy._begin_offset
        /\ ~NotLowered ]_vars

\* No call whose seek succeeded ends in a further call with the Streamer
\* and the consumer as they were before it.
C39_NoCallRepeatsItself ==
  [][ (InitialTimeStep /\ legacy'.seek = "ok" /\ legacy'.pc = "calling") =>
        [legacy' EXCEPT !.depth = 0] # [legacy EXCEPT !.depth = 0] ]_vars

\* jump_back_impl never seeks below the begin offset (both variants).
C39_NeverSeeksBelowBegin ==
  legacy.pc # "none" => legacy.position >= legacy._begin_offset
====
